---- MODULE Spec2Model ----
(***************************************************************************)
(* Session-scoped process orchestration and event streaming of ddoli.      *)
(*                                                                         *)
(* The model follows src/app/shared.py (run_mode_generation,               *)
(* parse_cli_stream, mode_stream_sse, chat_handler, mode_chat_handler,     *)
(* cleanup_old_responses, build_mcp_flags) and src/main.py                 *)
(* (get_session_lock, _cancel_streams, stop_stream, the MCP server         *)
(* endpoints).  One generation thread runs per response; its position in   *)
(* run_mode_generation is task[r].  Response ids are uuid prefixes in the  *)
(* code; here they are 1, 2, ... in creation order and never reused.       *)
(***************************************************************************)
EXTENDS Integers, Sequences, FiniteSets, Bags, TLC

VARIABLES
    responses,      \* ids in the registries (active_responses, code_responses, paper_responses)
    resp,           \* the response dict objects, by id (an object outlives its registry entry)
    streams,        \* the stream tables (chat_streams, active_streams, active_paper_streams)
    session_locks,  \* _session_locks: lock key -> holder (NoHolder when unlocked)
    task,           \* position of each generation thread in run_mode_generation
    proc,           \* state of the agent subprocess of each response
    nlines,         \* number of stdout lines each subprocess has produced so far
    title_procs,    \* responses for which the title-generation subprocess was spawned
    db_messages,    \* external store: session id -> [user, assistant] message counts
    MCP_SERVERS,    \* the shared server table: server name -> modes value
    granted_cancelled, \* history: responses whose cancelled flag was set when the lock was granted
    subs,           \* the stream subscriptions (generate() coroutines), a bag: a
                    \* coroutine has no identity beyond its own state
    terminal_sessions, \* terminal_routes.terminal_sessions: session id -> record
    conn,           \* the websocket_terminal coroutine of each connection
    pty,            \* the pseudo-terminal and child process forked for each connection
    call            \* one call of a function without shared state: its arguments, and
                    \* its result once the call was made

vars == <<responses, resp, streams, session_locks, task, proc, nlines, title_procs,
          db_messages, MCP_SERVERS, granted_cancelled, subs,
          terminal_sessions, conn, pty, call>>

genvars == <<responses, resp, streams, session_locks, task, proc, nlines, title_procs,
             db_messages, MCP_SERVERS, granted_cancelled>>

termvars == <<terminal_sessions, conn, pty>>

(***************************************************************************)
(* Bounds of the model.                                                    *)
(***************************************************************************)
MaxResp == 2        \* responses created in a behaviour of Spec
MaxLines == 1       \* stdout lines one subprocess produces in Spec
StreamLines == 2    \* stdout lines one subprocess produces in SpecStream
MaxSubs == 2        \* subscriptions opened in a behaviour of SpecStream
ReapSubs == 1       \* subscriptions opened in a behaviour of SpecReap
MaxConns == 4       \* terminal connection attempts in a behaviour of SpecCap
FrameConns == 1     \* terminal connections in a behaviour of SpecTerminal
MaxFrames == 2      \* frames received on one terminal connection
ReuseConns == 2     \* terminal connections in a behaviour of SpecReuse
ReuseFrames == 1    \* frames received on one connection in SpecReuse
MaxToolLines == 4   \* assistant and user lines read in a behaviour of SpecTools
MaxEndpointScan == 205  \* stream lines read before the endpoint announcement

Ids == 1..MaxResp
StartValues == {0, 1}   \* the start_from values subscriptions are opened with
Modes == {"chat", "code", "paper"}
Names == {"a"}
ServerNames == {"srv"}
NoHolder == 0
Conns == 1..MaxConns
MAX_TERMINALS == 3
NoConn == [pc |-> "none", reader |-> "none", nframes |-> 0, last |-> "",
           close_code |-> 0, error_frame |-> FALSE]
NoPty == [child |-> "none", fd |-> "none", num |-> 0, ops |-> <<>>, attempts |-> 0,
          input |-> <<>>, resized |-> 0]
NoStream == [present |-> FALSE, cancelled |-> FALSE, process |-> FALSE]
ActiveStatuses == {"pending", "running"}
TerminalStatuses == {"completed", "error"}
BusyReason == "Previous response is still processing."

(***************************************************************************)
(* Events and subprocess output lines.                                     *)
(***************************************************************************)
SSE_EVENT_TYPES == {"init", "tool_use", "edit_result", "read_result", "bash_result",
                    "tool_output", "text", "result"}

\* Kinds of stdout line: a system line, an assistant line with one text item,
\* a result line, a line that is not JSON, a JSON line that is not an object.
LineKinds == {"system", "assistant", "result", "junk", "nonobject"}

\* The kinds the orchestration specifications draw from: one that appends a
\* text event, the result line, and one that raises.
GenLines == {"assistant", "result", "nonobject"}

InitEvent == [type |-> "init", data |-> "sid"]
TextEvent == [type |-> "text", data |-> "txt"]
ResultEvent == [type |-> "result", data |-> "res"]

\* Mutant: the new event is put at the front of the log.
AppendEvent_Prepend(log, evt) == <<evt>> \o log

\* events_list.append(...)
AppendEvent(log, evt) == Append(log, evt)

\* The events parse_cli_stream and its on_result hook append for one line.
LineEvents(kind) ==
    CASE kind = "system" -> <<InitEvent>>
      [] kind = "assistant" -> <<TextEvent>>
      [] kind = "result" -> <<ResultEvent>>
      [] OTHER -> <<>>

\* full_response after the line (the running text).
LineText(kind, full) ==
    CASE kind = "assistant" -> "txt"
      [] kind = "result" -> "res"
      [] OTHER -> full

\* json.loads gives a non-dict: data.get raises AttributeError, which the
\* loop's except json.JSONDecodeError does not catch.
LineRaises(kind) == kind = "nonobject"

(***************************************************************************)
(* Sessions, lock keys, the lock table.                                    *)
(***************************************************************************)
SessionId(mode, name) == IF mode = "chat" THEN name ELSE mode \o "_" \o name

lock_key(r) == SessionId(resp[r].mode, resp[r].name)

SessionIds == {SessionId(m, n) : m \in Modes, n \in Names}

get_session_lock(key) ==
    IF key \in DOMAIN session_locks THEN session_locks
    ELSE session_locks @@ (key :> NoHolder)

\* Mutant: acquire succeeds whether or not the lock is held.
LockIsFree_Always(table, key) == key \in DOMAIN table

LockIsFree(table, key) == table[key] = NoHolder

HoldsLock(r) == lock_key(r) \in DOMAIN session_locks /\ session_locks[lock_key(r)] = r

(***************************************************************************)
(* The server table and build_mcp_flags.                                   *)
(***************************************************************************)
\* modes of a server record: "list" (a list of mode names, here all three)
\* or "null" (the request body carried "modes": null, which
\* _build_mcp_server_config stores unchecked).
ModesValues == {"list", "null"}

\* `mode not in server.get("modes", ...)` raises TypeError on a null modes.
build_mcp_flags_raises(mode) ==
    \E s \in DOMAIN MCP_SERVERS : mode # "" /\ MCP_SERVERS[s] = "null"

(***************************************************************************)
(* Registry helpers.                                                       *)
(***************************************************************************)
Created == DOMAIN resp

ModeRegistry(mode) == {r \in responses : resp[r].mode = mode}

\* Mutant: the stream entries of every mode.
ModeStreams_AllModes(mode) == {r \in Created : streams[r].present}

\* The stream table of the mode: chat_streams, code_active_streams or
\* active_paper_streams.
ModeStreams(mode) == {r \in Created : streams[r].present /\ resp[r].mode = mode}

\* Mutant: the reaper looks at the age only.
Expired_AnyStatus(mode) == {r \in ModeRegistry(mode) : resp[r].old}

\* cleanup_old_responses: terminal and older than the retention window.
Expired(mode) ==
    {r \in ModeRegistry(mode) : resp[r].status \in TerminalStatuses /\ resp[r].old}

NewResponse(mode, name, first) ==
    [mode |-> mode, name |-> name, first |-> first, status |-> "pending",
     events |-> <<>>, final_result |-> "", error |-> "", cancelled |-> FALSE,
     old |-> FALSE]

\* chat: db.count_user_messages(session_id) == 1 after the user message was
\* added; code/paper: len(messages) <= 1 after it was added.
IsFirstMessage(mode, counts) ==
    IF mode = "chat" THEN counts.user = 1
    ELSE counts.user + counts.assistant <= 1

TypeOK ==
    /\ responses \subseteq Created
    /\ Created \subseteq Ids
    /\ \A r \in Created : resp[r].status \in ActiveStatuses \cup TerminalStatuses

\* No function call is under way.
NoCall == [fn |-> "none"]

\* The state after construction of everything but call.
InitServer ==
    /\ responses = {}
    /\ resp = <<>>
    /\ streams = [r \in Ids |-> NoStream]
    /\ session_locks = <<>>
    /\ task = [r \in Ids |-> [pc |-> "none", full |-> "", why |-> ""]]
    /\ proc = [r \in Ids |-> "none"]
    /\ nlines = [r \in Ids |-> 0]
    /\ title_procs = {}
    /\ db_messages = [s \in SessionIds |-> [user |-> 0, assistant |-> 0]]
    /\ MCP_SERVERS = [s \in ServerNames |-> "list"]
    /\ granted_cancelled = {}
    /\ subs = EmptyBag
    /\ terminal_sessions = <<>>
    /\ conn = [c \in Conns |-> NoConn]
    /\ pty = [c \in Conns |-> NoPty]

Init == InitServer /\ call = NoCall

(***************************************************************************)
(* Request handlers: chat_handler and mode_chat_handler.                   *)
(***************************************************************************)
NextId == Cardinality(Created) + 1

\* The part the two handlers share: reap, store the user message, register
\* the response and its stream entry, start the generation thread.
StartGeneration(mode, name, limit) ==
    LET r == NextId
        sid == SessionId(mode, name)
        counts == [db_messages[sid] EXCEPT !.user = @ + 1]
    IN  /\ r <= limit
        /\ r \in Ids
        /\ responses' = (responses \ Expired(mode)) \cup {r}
        /\ db_messages' = [db_messages EXCEPT ![sid] = counts]
        /\ resp' = resp @@ (r :> NewResponse(mode, name, IsFirstMessage(mode, counts)))
        /\ streams' = [streams EXCEPT ![r] =
                          [present |-> TRUE, cancelled |-> FALSE, process |-> FALSE]]
        /\ task' = [task EXCEPT ![r] = [pc |-> "start", full |-> "", why |-> ""]]
        /\ UNCHANGED <<session_locks, proc, nlines, title_procs, MCP_SERVERS,
                       granted_cancelled, subs, termvars, call>>

chat_handler(name, limit) == StartGeneration("chat", name, limit)

mode_chat_handler(mode, name, limit) ==
    /\ mode \in {"code", "paper"}
    /\ StartGeneration(mode, name, limit)

(***************************************************************************)
(* run_mode_generation, one action per step of the thread.                 *)
(***************************************************************************)
\* responses[response_id]["status"] = st
SetStatus(r, st) == [resp EXCEPT ![r].status = st]

\* Mutant: the reason is also appended to the event log.
SetError_Logged(r, reason) ==
    [resp EXCEPT ![r].error = reason,
                 ![r].events = Append(@, [type |-> "text", data |-> reason])]

\* responses[response_id]["error"] = reason, a statement of its own after the
\* status write: a subscription's coroutine may read between the two.
SetError(r, reason) == [resp EXCEPT ![r].error = reason]

\* Mutant: the stream entry is left in the table.
PopStream_Keep(r) == streams

PopStream(r) == [streams EXCEPT ![r] = NoStream]

\* lock.acquire(timeout=120) succeeds.
Acquire(r) ==
    LET key == lock_key(r)
        table == get_session_lock(key)
    IN  /\ task[r].pc = "start"
        /\ LockIsFree(table, key)
        /\ session_locks' = [table EXCEPT ![key] = r]
        /\ task' = [task EXCEPT ![r].pc = "locked"]
        /\ granted_cancelled' = IF resp[r].cancelled THEN granted_cancelled \cup {r}
                                ELSE granted_cancelled
        /\ UNCHANGED <<responses, resp, streams, proc, nlines, title_procs,
                       db_messages, MCP_SERVERS, subs, termvars, call>>

\* Lines 688-689: lock.acquire(timeout=120) returns False (the lock stayed
\* held for 120 s) and the status is set to error.
LockTimeout(r) ==
    LET key == lock_key(r)
        table == get_session_lock(key)
    IN  /\ task[r].pc = "start"
        /\ ~LockIsFree(table, key)
        /\ session_locks' = table
        /\ resp' = SetStatus(r, "error")
        /\ task' = [task EXCEPT ![r].pc = "busy"]
        /\ UNCHANGED <<responses, streams, proc, nlines, title_procs, db_messages,
                       MCP_SERVERS, granted_cancelled, subs, termvars, call>>

\* Lines 690-692: the busy reason, the stream entry popped, return.
TimeoutReason(r) ==
    /\ task[r].pc = "busy"
    /\ resp' = SetError(r, BusyReason)
    /\ streams' = PopStream(r)
    /\ task' = [task EXCEPT ![r].pc = "done"]
    /\ UNCHANGED <<responses, session_locks, proc, nlines, title_procs, db_messages,
                   MCP_SERVERS, granted_cancelled, subs, termvars, call>>

\* Lines 694-707: the command line and build_mcp_flags, before the try.  An
\* exception here ends the thread: nothing catches it.
BuildCommand(r) ==
    /\ task[r].pc = "locked"
    /\ task' = [task EXCEPT ![r].pc =
                   IF build_mcp_flags_raises(resp[r].mode) THEN "crashed" ELSE "try"]
    /\ UNCHANGED <<responses, resp, streams, session_locks, proc, nlines,
                   title_procs, db_messages, MCP_SERVERS, granted_cancelled, subs, termvars, call>>

\* on_first_message is set by chat_handler only; its thread runs
\* generate_session_title, which spawns a CLI subprocess.
HasFirstHook(r) == resp[r].mode = "chat" /\ resp[r].first

\* Lines 710-720: the first-message hook, the cancelled check, status running.
EnterTry(r) ==
    /\ task[r].pc = "try"
    /\ title_procs' = IF HasFirstHook(r) THEN title_procs \cup {r} ELSE title_procs
    /\ IF resp[r].cancelled
         THEN /\ resp' = [resp EXCEPT ![r].status = "completed"]
              /\ task' = [task EXCEPT ![r].pc = "finally"]
         ELSE /\ resp' = [resp EXCEPT ![r].status = "running"]
              /\ task' = [task EXCEPT ![r].pc = "launch"]
    /\ UNCHANGED <<responses, streams, session_locks, proc, nlines, db_messages,
                   MCP_SERVERS, granted_cancelled, subs, termvars, call>>

\* Lines 722-728: subprocess.Popen, which may raise (LaunchFailure).
Launch(r) ==
    /\ task[r].pc = "launch"
    /\ \E ok \in BOOLEAN :
         IF ok
           THEN /\ proc' = [proc EXCEPT ![r] = "alive"]
                /\ task' = [task EXCEPT ![r].pc = "handle"]
                /\ UNCHANGED resp
           ELSE /\ resp' = SetStatus(r, "error")
                /\ task' = [task EXCEPT ![r].pc = "except", ![r].why = "launch"]
                /\ UNCHANGED proc
    /\ UNCHANGED <<responses, streams, session_locks, nlines, title_procs,
                   db_messages, MCP_SERVERS, granted_cancelled, subs, termvars, call>>

\* Line 729: streams[response_id]["process"] = process.
RegisterHandle(r) ==
    /\ task[r].pc = "handle"
    /\ streams' = [streams EXCEPT ![r].process = TRUE]
    /\ task' = [task EXCEPT ![r].pc = "parse"]
    /\ UNCHANGED <<responses, resp, session_locks, proc, nlines, title_procs,
                   db_messages, MCP_SERVERS, granted_cancelled, subs, termvars, call>>

Terminate(p) == IF p = "alive" THEN "terminated" ELSE p

\* parse_cli_stream, lines 397-400: the cancellation poll of one iteration.
ParseCheck(r) ==
    /\ task[r].pc = "parse"
    /\ IF resp[r].cancelled
         THEN /\ proc' = [proc EXCEPT ![r] = Terminate(@)]
              /\ task' = [task EXCEPT ![r].pc = "save"]
         ELSE /\ task' = [task EXCEPT ![r].pc = "read"]
              /\ UNCHANGED proc
    /\ UNCHANGED <<responses, resp, streams, session_locks, nlines, title_procs,
                   db_messages, MCP_SERVERS, granted_cancelled, subs, termvars, call>>

\* Mutant: the result line also marks the response completed, before the
\* lines after it are appended.
AfterLine_Completes(rec, kind, full) ==
    LET evts == LineEvents(kind)
        log == IF evts = <<>> THEN rec.events ELSE AppendEvent(rec.events, evts[1])
    IN  [rec EXCEPT !.events = log,
                    !.final_result = IF kind = "result" THEN full ELSE @,
                    !.status = IF kind = "result" THEN "completed" ELSE @]

\* The response after one parsed line: the events appended, and what the
\* on_result hook stores.
AfterLine(rec, kind, full) ==
    LET evts == LineEvents(kind)
        log == IF evts = <<>> THEN rec.events ELSE AppendEvent(rec.events, evts[1])
    IN  [rec EXCEPT !.events = log,
                    !.final_result = IF kind = "result" THEN full ELSE @]

\* parse_cli_stream, lines 402-459: readline returns a line.
ReadLine(r, kind, limit) ==
    /\ task[r].pc = "read"
    /\ proc[r] = "alive"
    /\ nlines[r] < limit
    /\ nlines' = [nlines EXCEPT ![r] = @ + 1]
    /\ IF LineRaises(kind)
         THEN /\ resp' = SetStatus(r, "error")
              /\ task' = [task EXCEPT ![r].pc = "except", ![r].why = "parse"]
         ELSE /\ resp' = [resp EXCEPT ![r] =
                             AfterLine(@, kind, LineText(kind, task[r].full))]
              /\ task' = [task EXCEPT ![r].pc = "parse",
                                      ![r].full = LineText(kind, task[r].full)]
    /\ UNCHANGED <<responses, streams, session_locks, proc, title_procs,
                   db_messages, MCP_SERVERS, granted_cancelled, subs, termvars, call>>

\* parse_cli_stream, lines 403-405 and 461: end of stream after the exit;
\* poll() is tested against None only and wait()'s result is dropped.
ReadEOF(r) ==
    /\ task[r].pc = "read"
    /\ proc[r] \in {"exited", "failed", "terminated"}
    /\ task' = [task EXCEPT ![r].pc = "save"]
    /\ UNCHANGED <<responses, resp, streams, session_locks, proc, nlines,
                   title_procs, db_messages, MCP_SERVERS, granted_cancelled, subs, termvars, call>>

\* The exit statuses of the agent subprocess: success and a failure.
ExitCodes == {0, 1}

\* The exit status of a subprocess that did not fail.  No statement of the
\* orchestration reads the status (process.poll() is compared with None and
\* the result of process.wait() is dropped), so the specifications that are
\* not about failing subprocesses draw it from this set.
CleanExit == {0}

\* The subprocess exits by itself, with one of the statuses of codes.
ProcExit(r, codes) ==
    /\ proc[r] = "alive"
    /\ \E code \in codes :
         proc' = [proc EXCEPT ![r] = IF code = 0 THEN "exited" ELSE "failed"]
    /\ UNCHANGED <<responses, resp, streams, session_locks, task, nlines,
                   title_procs, db_messages, MCP_SERVERS, granted_cancelled, subs, termvars, call>>

\* event_filter: code and paper keep four event types, chat keeps all.
EventFilter(mode) ==
    IF mode = "chat" THEN SSE_EVENT_TYPES
    ELSE {"text", "tool_use", "edit_result", "bash_result"}

CollectedEvents(r) ==
    SelectSeq(resp[r].events, LAMBDA e : e.type \in EventFilter(resp[r].mode))

\* Mutant: the write does not look at the cancelled flag.
WritesMessage_IgnoresFlag(r) == task[r].full # "" \/ CollectedEvents(r) # <<>>

\* Line 759: the condition of the append-message write.
WritesMessage(r) ==
    ~resp[r].cancelled /\ (task[r].full # "" \/ CollectedEvents(r) # <<>>)

\* Lines 753-762: the append-message write (which may raise) and completed.
Save(r) ==
    /\ task[r].pc = "save"
    /\ IF WritesMessage(r)
         THEN \E dbok \in BOOLEAN :
                IF dbok
                  THEN /\ db_messages' = [db_messages EXCEPT ![lock_key(r)].assistant = @ + 1]
                       /\ resp' = SetStatus(r, "completed")
                       /\ task' = [task EXCEPT ![r].pc = "finally"]
                  ELSE /\ resp' = SetStatus(r, "error")
                       /\ task' = [task EXCEPT ![r].pc = "except", ![r].why = "db"]
                       /\ UNCHANGED db_messages
         ELSE /\ resp' = SetStatus(r, "completed")
              /\ task' = [task EXCEPT ![r].pc = "finally"]
              /\ UNCHANGED db_messages
    /\ UNCHANGED <<responses, streams, session_locks, proc, nlines, title_procs,
                   MCP_SERVERS, granted_cancelled, subs, termvars, call>>

\* Line 766: responses[response_id]["error"] = str(e); lines 764-765 are the
\* last part of the step that raised.  Once the id was reaped the lookup
\* raises KeyError and the reason is not written; the finally block still runs.
ExceptReason(r) ==
    /\ task[r].pc = "except"
    /\ resp' = IF r \in responses THEN SetError(r, task[r].why) ELSE resp
    /\ task' = [task EXCEPT ![r].pc = "finally"]
    /\ UNCHANGED <<responses, streams, session_locks, proc, nlines, title_procs,
                   db_messages, MCP_SERVERS, granted_cancelled, subs, termvars, call>>

\* Mutant: the finally block also marks the response completed.
Finally_Completes(r) ==
    /\ task[r].pc = "finally"
    /\ streams' = [streams EXCEPT ![r] = NoStream]
    /\ session_locks' = [session_locks EXCEPT ![lock_key(r)] = NoHolder]
    /\ resp' = [resp EXCEPT ![r].status = "completed"]
    /\ task' = [task EXCEPT ![r].pc = "done"]
    /\ UNCHANGED <<responses, proc, nlines, title_procs, db_messages,
                   MCP_SERVERS, granted_cancelled, subs, termvars, call>>

\* Lines 767-769: the finally block.
Finally(r) ==
    /\ task[r].pc = "finally"
    /\ streams' = PopStream(r)
    /\ session_locks' = [session_locks EXCEPT ![lock_key(r)] = NoHolder]
    /\ task' = [task EXCEPT ![r].pc = "done"]
    /\ UNCHANGED <<responses, resp, proc, nlines, title_procs, db_messages,
                   MCP_SERVERS, granted_cancelled, subs, termvars, call>>

(***************************************************************************)
(* stop_stream / _cancel_streams, the server table endpoints, time.        *)
(***************************************************************************)
\* Every stream entry of the mode is flagged and its process terminated; the
\* responses of the mode in an active status are flagged.
stop_stream(mode) ==
    /\ streams' = [r \in Ids |->
                     IF r \in ModeStreams(mode)
                       THEN [streams[r] EXCEPT !.cancelled = TRUE] ELSE streams[r]]
    /\ proc' = [r \in Ids |->
                  IF r \in ModeStreams(mode) /\ streams[r].process
                    THEN Terminate(proc[r]) ELSE proc[r]]
    /\ resp' = [r \in Created |->
                  IF r \in ModeRegistry(mode) /\ resp[r].status \in ActiveStatuses
                    THEN [resp[r] EXCEPT !.cancelled = TRUE] ELSE resp[r]]
    /\ UNCHANGED <<responses, session_locks, task, nlines, title_procs, db_messages,
                   MCP_SERVERS, granted_cancelled, subs, termvars, call>>

\* create_mcp_server -> add_mcp_server / edit_mcp_server -> update_mcp_server.
upsert_mcp_server(name, modes) ==
    /\ MCP_SERVERS' = IF name \in DOMAIN MCP_SERVERS
                        THEN [MCP_SERVERS EXCEPT ![name] = modes]
                        ELSE MCP_SERVERS @@ (name :> modes)
    /\ MCP_SERVERS' # MCP_SERVERS
    /\ UNCHANGED <<responses, resp, streams, session_locks, task, proc, nlines,
                   title_procs, db_messages, granted_cancelled, subs, termvars, call>>

\* Time passes: the response becomes older than the retention window.
Age(r) ==
    /\ r \in Created
    /\ ~resp[r].old
    /\ resp' = [resp EXCEPT ![r].old = TRUE]
    /\ UNCHANGED <<responses, streams, session_locks, task, proc, nlines,
                   title_procs, db_messages, MCP_SERVERS, granted_cancelled, subs, termvars, call>>

\* The steps of the generation threads and of their subprocesses.
GenSteps(maxlines, codes) ==
    \/ \E r \in Created : Acquire(r)
    \/ \E r \in Created : BuildCommand(r)
    \/ \E r \in Created : EnterTry(r)
    \/ \E r \in Created : Launch(r)
    \/ \E r \in Created : RegisterHandle(r)
    \/ \E r \in Created : ParseCheck(r)
    \/ \E r \in Created, k \in GenLines : ReadLine(r, k, maxlines)
    \/ \E r \in Created : ReadEOF(r)
    \/ \E r \in Created : ProcExit(r, codes)
    \/ \E r \in Created : Save(r)
    \/ \E r \in Created : ExceptReason(r)
    \/ \E r \in Created : Finally(r)

\* The orchestration of one chat session: requests of the session contend
\* for its lock while the server table is edited and stop requests arrive.
Next ==
    \/ \E n \in Names : chat_handler(n, MaxResp)
    \/ GenSteps(MaxLines, CleanExit)
    \/ \E r \in Created : LockTimeout(r)
    \/ \E r \in Created : TimeoutReason(r)
    \/ stop_stream("chat")
    \/ \E s \in ServerNames, mv \in ModesValues : upsert_mcp_server(s, mv)

Spec == Init /\ [][Next]_vars

\* The steps of the generation thread of response r.
ThreadStep(r) ==
    /\ r \in Created
    /\ \/ Acquire(r)
       \/ BuildCommand(r)
       \/ EnterTry(r)
       \/ Launch(r)
       \/ RegisterHandle(r)
       \/ ParseCheck(r)
       \/ \E k \in GenLines : ReadLine(r, k, MaxLines)
       \/ ReadEOF(r)
       \/ Save(r)
       \/ ExceptReason(r)
       \/ Finally(r)

\* The same orchestration with every generation thread scheduled: a thread
\* that can take its next step takes it.  The requests, the stop requests,
\* the edits of the server table and the subprocess's own exit are not
\* scheduled.
SpecFair == Spec /\ \A r \in Ids : WF_vars(ThreadStep(r))

\* The wait for the lock ends after 120 s when the lock stayed held.
TimeoutStep(r) == r \in Created /\ (LockTimeout(r) \/ TimeoutReason(r))

\* The same orchestration where, besides, a wait for a held lock times out
\* and every spawned subprocess exits.
SpecLive ==
    /\ Spec
    /\ \A r \in Ids : /\ WF_vars(ThreadStep(r) \/ TimeoutStep(r))
                       /\ WF_vars(r \in Created /\ ProcExit(r, CleanExit))

(***************************************************************************)
(* mode_stream_sse: one generate() coroutine per subscription.  A           *)
(* subscription holds the response object it found (resp = responses[id]),  *)
(* its cursor (last_event_idx), the status it read on this polling turn,    *)
(* and out, everything it has yielded so far.                               *)
(***************************************************************************)
\* Mutant: the cursor ignores start_from.
StartCursor_Zero(start_from) == 0

\* last_event_idx = max(0, start_from)
StartCursor(start_from) == IF start_from > 0 THEN start_from ELSE 0

\* Mutant: the cursor moves two places.
NextCursor_Skip(idx) == idx + 2

\* last_event_idx += 1
NextCursor(idx) == idx + 1

\* The SSE event of one log event: its type, its data and _idx.
SseEvent(evt, idx) == [event |-> evt.type, data |-> evt.data, idx |-> idx]

DoneSignal == [event |-> "done", data |-> "", idx |-> -1]

ErrorSignal(reason) == [event |-> "error_msg", data |-> reason, idx |-> -1]

NotFoundReason == "Session not found."

\* Mutant: the lookup finds every response object ever created.
InRegistry_Ever(id) == id \in Created

\* id in responses (line 782)
InRegistry(id) == id \in responses

SubIds == BagToSet(subs)

\* The coroutine in state s moves to state t.
Resume(s, t) == (subs (-) SetToBag({s})) (+) SetToBag({t})

\* Lines 781-788: the registry lookup and the start cursor.
Subscribe(id, start_from, limit) ==
    /\ BagCardinality(subs) < limit
    /\ subs' = subs (+) SetToBag({
                 IF ~InRegistry(id)
                   THEN [rid |-> id, start |-> start_from, cursor |-> 0,
                         status |-> "", pc |-> "notfound",
                         out |-> <<ErrorSignal(NotFoundReason), DoneSignal>>]
                   ELSE [rid |-> id, start |-> start_from,
                         cursor |-> StartCursor(start_from),
                         status |-> "", pc |-> "poll", out |-> <<>>]})
    /\ UNCHANGED <<genvars, termvars, call>>

\* Lines 791-796: the cancelled check on the stream entry, then the status.
\* responses[id]["cancelled"] = True raises KeyError once the id was reaped.
Poll(sub) ==
    LET id == sub.rid
    IN  /\ sub.pc = "poll"
        /\ IF streams[id].present /\ streams[id].cancelled
             THEN IF id \in responses
                    THEN /\ resp' = [resp EXCEPT ![id].cancelled = TRUE]
                         /\ subs' = Resume(sub, [sub EXCEPT !.pc = "stopped",
                                                             !.out = Append(@, DoneSignal)])
                    ELSE /\ subs' = Resume(sub, [sub EXCEPT !.pc = "failed"])
                         /\ UNCHANGED resp
             ELSE /\ subs' = Resume(sub, [sub EXCEPT !.pc = "send",
                                                      !.status = resp[id].status])
                  /\ UNCHANGED resp
        /\ UNCHANGED <<responses, streams, session_locks, task, proc, nlines,
                       title_procs, db_messages, MCP_SERVERS, granted_cancelled,
                       termvars, call>>

\* Lines 804-812: one turn of the inner loop, which yields one event.
Send(sub) ==
    LET events == resp[sub.rid].events
        evt == events[sub.cursor + 1]
    IN  /\ sub.pc = "send"
        /\ sub.cursor < Len(events)
        /\ subs' = Resume(sub, [sub EXCEPT
                      !.out = IF evt.type \in SSE_EVENT_TYPES
                                THEN Append(@, SseEvent(evt, sub.cursor)) ELSE @,
                      !.cursor = NextCursor(@)])
        /\ UNCHANGED <<genvars, termvars, call>>

\* Lines 805 and 814-823: the inner loop ends; done, error_msg and done, or
\* the sleep before the next polling turn.
Finish(sub) ==
    LET rec == resp[sub.rid]
    IN  /\ sub.pc = "send"
        /\ sub.cursor >= Len(rec.events)
        /\ subs' = Resume(sub, [sub EXCEPT
                      !.pc = IF sub.status \in TerminalStatuses THEN "done" ELSE "poll",
                      !.status = IF sub.status \in TerminalStatuses THEN @ ELSE "",
                      !.out =
                          CASE sub.status = "completed" -> Append(@, DoneSignal)
                            [] sub.status = "error" ->
                                 @ \o <<ErrorSignal(rec.error), DoneSignal>>
                            [] OTHER -> @])
        /\ UNCHANGED <<genvars, termvars, call>>

\* One response of a code project: its generation, stop requests, and
\* subscriptions attached at any time with any start cursor (before the
\* response is registered too, when the id is unknown).
NextStream ==
    \/ \E n \in Names : mode_chat_handler("code", n, 1)
    \/ GenSteps(StreamLines, ExitCodes)
    \/ stop_stream("code")
    \/ \E k \in StartValues : Subscribe(1, k, MaxSubs)
    \/ \E s \in SubIds : Poll(s)
    \/ \E s \in SubIds : Send(s)
    \/ \E s \in SubIds : Finish(s)

SpecStream == Init /\ [][NextStream]_vars

\* The registry of code responses over time: requests of one project, each
\* reaping the expired responses first, responses growing older than the
\* retention window, and subscriptions to the first response's id opened at
\* any time: before it is registered, while it is, and after it was reaped.
NextReap ==
    \/ \E n \in Names : mode_chat_handler("code", n, MaxResp)
    \/ GenSteps(MaxLines, CleanExit)
    \/ \E r \in Created : LockTimeout(r)
    \/ \E r \in Created : TimeoutReason(r)
    \/ \E r \in Created : Age(r)
    \/ Subscribe(1, 0, ReapSubs)
    \/ \E s \in SubIds : Poll(s)
    \/ \E s \in SubIds : Send(s)
    \/ \E s \in SubIds : Finish(s)

SpecReap == Init /\ [][NextReap]_vars

\* The registry of code responses without its readers: requests of one
\* project, each reaping first, and responses growing old at any point of
\* their generation.
NextRetain ==
    \/ \E n \in Names : mode_chat_handler("code", n, MaxResp)
    \/ GenSteps(MaxLines, CleanExit)
    \/ \E r \in Created : LockTimeout(r)
    \/ \E r \in Created : TimeoutReason(r)
    \/ \E r \in Created : Age(r)

SpecRetain == Init /\ [][NextRetain]_vars

(***************************************************************************)
(* terminal_routes: the terminal bridge.  A connection's session id is its  *)
(* connection number; pid and master_fd are the child and the descriptor   *)
(* of pty[c].  Coroutines interleave at their await points only, so each   *)
(* action runs from one await to the next.                                 *)
(***************************************************************************)
\* Frames the peer sends: the resize control message, text that is not JSON,
\* text that is a JSON object without type resize, text that is JSON of
\* another shape (a number, a string, an array, null), and a binary frame.
Frames == {"resize", "text", "json_object", "json_scalar", "bytes"}

\* Mutant: _close_session acts whether or not the id is in the table.
Registered_Always(sid) == TRUE

\* terminal_sessions.pop(session_id, None) found a record.
Registered(sid) == sid \in DOMAIN terminal_sessions

\* Mutant: the reaper finds no session idle.
IdleSessions_None == {}

\* _cleanup_idle_sessions, lines 31-35: now - last_activity > IDLE_TIMEOUT.
IdleSessions == {s \in DOMAIN terminal_sessions : terminal_sessions[s].idle}

\* Mutant: the cap is passed only above MAX_TERMINALS.
AtCapacity_Over(n) == n > MAX_TERMINALS

\* len(terminal_sessions) >= MAX_TERMINALS
AtCapacity(n) == n >= MAX_TERMINALS

\* _close_session, lines 45-59: SIGTERM to the child, then os.close(fd).
ClosedPty(p) ==
    [p EXCEPT !.ops = @ \o <<"kill", "close">>,
              !.fd = "closed",
              !.child = IF @ = "alive" THEN "signalled" ELSE @]

\* The table after _close_session on each id of ids.
TableWithout(ids) ==
    [s \in DOMAIN terminal_sessions \ ids |-> terminal_sessions[s]]

\* The children and descriptors after _close_session on each id of ids;
\* attempts counts the calls, the ones that found no record included.
PtyAfterClose(ids) ==
    [c \in Conns |->
        IF c \in ids
          THEN [(IF Registered(c) THEN ClosedPty(pty[c]) ELSE pty[c])
                  EXCEPT !.attempts = @ + 1]
          ELSE pty[c]]

\* terminal_sessions[session_id]["last_activity"] = time.time(), guarded by
\* `session_id in terminal_sessions`.
Touched(c) ==
    IF c \in DOMAIN terminal_sessions
      THEN [terminal_sessions EXCEPT ![c].idle = FALSE] ELSE terminal_sessions

\* The sessions whose open descriptor has the number n: the pseudo-terminal
\* an os.read, os.write or ioctl on the integer n acts on (none: EBADF).
DescriptorOf(n) == {d \in Conns : pty[d].fd = "open" /\ pty[d].num = n}

\* The session the master_fd of handler c denotes now.  master_fd is the
\* integer pty.fork() returned to c; once c's descriptor was closed the
\* number is free and a later pty.fork() may return it again.
Target(c) == DescriptorOf(pty[c].num)

\* The descriptor number of the executions in which no number is given out
\* twice; SpecCap and SpecTerminal follow these.
OwnNumber(c) == {c}

\* The descriptor numbers pty.fork() may return: the lowest number that is
\* not open (which may have been a closed session's), or one never used.
ForkNumbers ==
    LET free == {n \in Conns : DescriptorOf(n) = {}}
    IN  {CHOOSE n \in free : \A k \in free : n <= k,
         Cardinality({d \in Conns : pty[d].num # 0}) + 1}

NextConn == Cardinality({c \in Conns : conn[c].pc # "none"}) + 1

\* Lines 82-88: the reaper, the capacity check, close(1008) or ws.accept().
Connect(c, limit) ==
    LET idle == IdleSessions
        table == TableWithout(idle)
    IN  /\ c = NextConn
        /\ c <= limit
        /\ terminal_sessions' = table
        /\ pty' = PtyAfterClose(idle)
        /\ conn' = [conn EXCEPT ![c] =
                      IF AtCapacity(Cardinality(DOMAIN table))
                        THEN [@ EXCEPT !.pc = "rejected", !.close_code = 1008]
                        ELSE [@ EXCEPT !.pc = "accepting"]]
        /\ UNCHANGED <<genvars, subs, call>>

\* The end of a handler that raised inside the outer try: the read task is
\* cancelled, the error frame sent, _close_session, ws.close().
Aborted(cn) ==
    [cn EXCEPT !.pc = "closed", !.close_code = 1000, !.error_frame = TRUE,
               !.reader = IF @ = "running" THEN "cancelled" ELSE @]

\* Lines 88-113: ws.accept() returns or raises, pty.fork() returns or raises,
\* the session record is registered, send_json is awaited.
Accept(c, numbers) ==
    /\ conn[c].pc = "accepting"
    /\ \E outcome \in {"ok", "accept_raises", "fork_raises"} :
         CASE outcome = "ok" ->
                /\ terminal_sessions' = terminal_sessions @@ (c :> [idle |-> FALSE])
                /\ \E n \in numbers :
                     pty' = [pty EXCEPT ![c].child = "alive", ![c].fd = "open",
                                        ![c].num = n]
                /\ conn' = [conn EXCEPT ![c].pc = "greeting"]
           [] outcome = "accept_raises" ->
                /\ conn' = [conn EXCEPT ![c].pc = "closed"]
                /\ UNCHANGED <<terminal_sessions, pty>>
           [] OTHER ->
                /\ conn' = [conn EXCEPT ![c] = Aborted(@)]
                /\ terminal_sessions' = TableWithout({c})
                /\ pty' = PtyAfterClose({c})
    /\ UNCHANGED <<genvars, subs, call>>

\* Lines 113-143: send_json returned or raised, the initial geometry, the
\* read task is started, the first ws.receive() is awaited.
Greet(c) ==
    /\ conn[c].pc = "greeting"
    /\ \E ok \in BOOLEAN :
         IF ok /\ Target(c) # {}
           THEN /\ conn' = [conn EXCEPT ![c].pc = "active", ![c].reader = "running"]
                /\ UNCHANGED <<terminal_sessions, pty>>
           ELSE /\ conn' = [conn EXCEPT ![c] = Aborted(@)]
                /\ terminal_sessions' = TableWithout({c})
                /\ pty' = PtyAfterClose({c})
    /\ UNCHANGED <<genvars, subs, call>>

\* What lines 155-173 do with one frame: "resized", "written" or "raised".
\*  - resize: _set_pty_size raises struct.error or OSError when rows/cols
\*    cannot be packed or the ioctl fails; neither is a ValueError.
\*  - JSON that is not an object: data.get raises AttributeError.
\*  - everything else is written; os.write raises OSError on a number that
\*    is not an open descriptor.
FrameOutcomes(f, target) ==
    CASE f = "resize" -> IF target # {} THEN {"resized", "raised"} ELSE {"raised"}
      [] f = "json_scalar" -> {"raised"}
      [] OTHER -> IF target # {} THEN {"written"} ELSE {"raised"}

\* Lines 148-173: ws.receive() returned a text or binary frame.
Receive(c, f, limit) ==
    /\ conn[c].pc = "active"
    /\ conn[c].nframes < limit
    /\ \E outcome \in FrameOutcomes(f, Target(c)) :
         LET cn == [conn[c] EXCEPT !.nframes = @ + 1, !.last = f]
             d == CHOOSE t \in Target(c) : TRUE
         IN  CASE outcome = "resized" ->
                    /\ conn' = [conn EXCEPT ![c] = cn]
                    /\ terminal_sessions' = Touched(c)
                    /\ pty' = [pty EXCEPT ![d].resized = @ + 1]
               [] outcome = "written" ->
                    /\ conn' = [conn EXCEPT ![c] = cn]
                    /\ terminal_sessions' = Touched(c)
                    /\ pty' = [pty EXCEPT ![d].input = Append(@, f)]
               [] OTHER ->
                    /\ conn' = [conn EXCEPT ![c] = Aborted(cn)]
                    /\ terminal_sessions' = TableWithout({c})
                    /\ pty' = PtyAfterClose({c})
    /\ UNCHANGED <<genvars, subs, call>>

\* Lines 149-150 and 177-194: the peer disconnected.
Disconnect(c) ==
    /\ conn[c].pc = "active"
    /\ conn' = [conn EXCEPT ![c].pc = "closed", ![c].close_code = 1000,
                            ![c].reader = IF @ = "running" THEN "cancelled" ELSE @]
    /\ terminal_sessions' = TableWithout({c})
    /\ pty' = PtyAfterClose({c})
    /\ UNCHANGED <<genvars, subs, call>>

\* read_from_pty, lines 123-140: one turn of the read task.  Output of a live
\* shell is sent (send_bytes may raise); a read error or end-of-file, or a
\* number that is not an open descriptor, ends the task and nothing else.
PtyRead(c) ==
    /\ conn[c].reader = "running"
    /\ IF \E d \in Target(c) : pty[d].child = "alive"
         THEN \E sent \in BOOLEAN :
                IF sent
                  THEN /\ terminal_sessions' = Touched(c)
                       /\ UNCHANGED conn
                  ELSE /\ conn' = [conn EXCEPT ![c].reader = "ended"]
                       /\ UNCHANGED terminal_sessions
         ELSE /\ conn' = [conn EXCEPT ![c].reader = "ended"]
              /\ UNCHANGED terminal_sessions
    /\ UNCHANGED <<genvars, subs, call, pty>>

\* The shell exits by itself.
ShellExit(c) ==
    /\ pty[c].child = "alive"
    /\ pty' = [pty EXCEPT ![c].child = "exited"]
    /\ UNCHANGED <<genvars, subs, call, terminal_sessions, conn>>

\* Time passes: the session's last_activity is now older than IDLE_TIMEOUT.
Idle(s) ==
    /\ s \in DOMAIN terminal_sessions
    /\ ~terminal_sessions[s].idle
    /\ terminal_sessions' = [terminal_sessions EXCEPT ![s].idle = TRUE]
    /\ UNCHANGED <<genvars, subs, call, conn, pty>>

\* GET /terminal/status, lines 69-76: the reaper runs.
terminal_status ==
    /\ terminal_sessions' = TableWithout(IdleSessions)
    /\ pty' = PtyAfterClose(IdleSessions)
    /\ UNCHANGED <<genvars, subs, call, conn>>

\* Connection attempts against the cap: connections that come and go, shell
\* output, sessions going idle, and the reaper run by connection attempts
\* and by the status endpoint.
NextCap ==
    \/ \E c \in Conns : Connect(c, MaxConns)
    \/ \E c \in Conns : Accept(c, OwnNumber(c))
    \/ \E c \in Conns : Greet(c)
    \/ \E c \in Conns : Disconnect(c)
    \/ \E c \in Conns : PtyRead(c)
    \/ \E c \in Conns : Idle(c)
    \/ terminal_status

SpecCap == Init /\ [][NextCap]_vars

\* The traffic of terminal connections: frames from the peer, shell output,
\* the shell exiting, sessions going idle and being reaped.
NextTerminal ==
    \/ \E c \in Conns : Connect(c, FrameConns)
    \/ \E c \in Conns : Accept(c, OwnNumber(c))
    \/ \E c \in Conns : Greet(c)
    \/ \E c \in Conns, f \in Frames : Receive(c, f, MaxFrames)
    \/ \E c \in Conns : Disconnect(c)
    \/ \E c \in Conns : PtyRead(c)
    \/ \E c \in Conns : ShellExit(c)
    \/ \E c \in Conns : Idle(c)
    \/ terminal_status

SpecTerminal == Init /\ [][NextTerminal]_vars

\* Two terminal connections, the first of which may be reaped as idle while
\* its handler is still running: the second fork may then return the number
\* of the first session's closed descriptor.
NextReuse ==
    \/ \E c \in Conns : Connect(c, ReuseConns)
    \/ \E c \in Conns : Accept(c, ForkNumbers)
    \/ \E c \in Conns : Greet(c)
    \/ \E c \in Conns, f \in Frames : Receive(c, f, ReuseFrames)
    \/ \E c \in Conns : Disconnect(c)
    \/ \E c \in Conns : PtyRead(c)
    \/ \E c \in Conns : Idle(c)
    \/ terminal_status

SpecReuse == Init /\ [][NextReuse]_vars

\* The same traffic with the server's own steps scheduled: the event loop
\* runs a handler that is ready (ws.accept() and send_json return or raise)
\* and the read task's next turn.  What the peer, the shell, the clock and
\* other requests do is not scheduled.
SpecTerminalFair ==
    /\ SpecTerminal
    /\ \A c \in Conns : /\ WF_vars(Accept(c, OwnNumber(c)))
                        /\ WF_vars(Greet(c))
                        /\ WF_vars(PtyRead(c))

(***************************************************************************)
(* Tool discovery: _discover_server_tools, discover_mcp_tools_sse and       *)
(* discover_mcp_tools_stdio, as functions of the server record and of what  *)
(* the server does during the exchange.                                     *)
(***************************************************************************)
MaxReplyLines == 2  \* lines read while one JSON-RPC reply is awaited

\* A line read while the reply with the target id is awaited: the reply, a
\* JSON object with another id, text that is not JSON, JSON that is not an
\* object.
ReplyLineKinds == {"match", "other_id", "junk", "nonobject"}

ReplyLines == UNION {[1..n -> ReplyLineKinds] : n \in 0..MaxReplyLines}

\* The tools/list reply: a result with tools, a result with an empty tools
\* list, a JSON-RPC error (no result key), a result that is null.
PayloadKinds == {"tools", "no_tools", "error", "null_result"}

DiscoveredTools == <<"search", "fetch">>

\* The server records _build_mcp_server_config produces (an sse record has
\* its url, a stdio record its command; args is whatever the request body
\* carried) and what happens during the exchange: requests.get or Popen
\* returns or raises, the endpoint event comes or the stream ends, the lines
\* read for each reply, a write to the server succeeds or raises.
Exchanges ==
    [type : {"sse"}, has_url : {TRUE}, args : {"list"}, open : {"ok", "raises"},
     endpoint : {"found", "none"}, init : ReplyLines, send : {"ok", "raises"},
     tools : ReplyLines, payload : PayloadKinds]
    \cup
    [type : {"stdio"}, has_url : {FALSE}, args : {"list", "scalar"}, open : {"ok", "raises"},
     endpoint : {"found"}, init : ReplyLines, send : {"ok", "raises"},
     tools : ReplyLines, payload : PayloadKinds]

Returned(v) == [raised |-> FALSE, value |-> v]

Raised == [raised |-> TRUE, value |-> <<>>]

\* _read_sse_response and read_jsonrpc: "match" when the reply was found,
\* "none" when the lines ran out, "raise" when data.get met a non-object
\* (only JSONDecodeError and ValueError are caught around it).
RECURSIVE ReadReply(_)
ReadReply(lines) ==
    IF lines = <<>> THEN "none"
    ELSE CASE Head(lines) = "match" -> "match"
           [] Head(lines) = "nonobject" -> "raise"
           [] OTHER -> ReadReply(Tail(lines))

\* _extract_tools on what ReadReply found.
ExtractTools(found, payload) ==
    IF found = "none" THEN Returned(<<>>)
    ELSE CASE payload = "tools" -> Returned(DiscoveredTools)
           [] payload = "null_result" -> Raised
           [] OTHER -> Returned(<<>>)

\* Mutant: the exception leaves the function.
Guarded_Off(result) == result

\* try: ... except Exception: return []
Guarded(result) == IF result.raised THEN Returned(<<>>) ELSE result

\* The exchange after the connection is open: initialize, the initialized
\* notification, tools/list.
Handshake(x) ==
    LET r1 == ReadReply(x.init)
        r2 == ReadReply(x.tools)
    IN  IF r1 = "raise" THEN Raised
        ELSE IF r1 = "none" THEN Returned(<<>>)
        ELSE IF x.send = "raises" \/ r2 = "raise" THEN Raised
        ELSE ExtractTools(r2, x.payload)

discover_mcp_tools_sse(x) ==
    Guarded(IF x.open = "raises" THEN Raised
            ELSE IF x.endpoint = "none" THEN Returned(<<>>)
            ELSE Handshake(x))

\* [command] + args raises TypeError when args is not a list; the first
\* write to the stdin of a child that died raises BrokenPipeError.
discover_mcp_tools_stdio(x) ==
    Guarded(IF x.args # "list" \/ x.open = "raises" \/ x.send = "raises" THEN Raised
            ELSE Handshake(x))

\* server["url"] is a lookup outside any try.
_discover_server_tools(x) ==
    CASE x.type = "sse" -> IF x.has_url THEN discover_mcp_tools_sse(x) ELSE Raised
      [] x.type = "stdio" -> discover_mcp_tools_stdio(x)
      [] OTHER -> Returned(<<>>)

Discover ==
    /\ call.fn = "discover"
    /\ call' = [fn |-> "discovered", arg |-> call.arg,
                out |-> _discover_server_tools(call.arg)]
    /\ UNCHANGED <<genvars, subs, termvars>>

InitDiscover ==
    /\ InitServer
    /\ call \in {[fn |-> "discover", arg |-> x] : x \in Exchanges}

NextDiscover == Discover

SpecDiscover == InitDiscover /\ [][NextDiscover]_vars

(***************************************************************************)
(* build_mcp_flags as a function of the enabled list, the mode and the      *)
(* server table.  A name is a sequence of pieces: "_" is one underscore,    *)
(* every other piece is text without an underscore.                         *)
(***************************************************************************)
MaxNameLen == 2     \* pieces of a server name
MaxServers == 1     \* servers in the table build_mcp_flags reads

\* The server-name rule of create_mcp_server: ^[a-zA-Z0-9_-]+$.
NameChars == {"s", "_"}

ServerNameValues == UNION {[1..n -> NameChars] : n \in 1..MaxNameLen}

ToolNames == {<<"search">>, <<"fetch">>}

\* The tools discovery stored for a server.
ToolLists == {<<>>, <<<<"search">>>>, <<<<"search">>, <<"fetch">>>>}

\* The caller's enabled list (tool names).
EnabledLists == {<<>>, <<<<"search">>>>, <<<<"fetch">>>>, <<<<"search">>, <<"fetch">>>>}

\* modes of a server record: every mode, chat only, or null.
ServerModes == {"all", "chat_only", "null"}

FlagModes == {"", "chat", "code"}

ServerRecords == [name : ServerNameValues, modes : ServerModes, tools : ToolLists]

\* The tables: sequences of records (the dict's insertion order) with
\* pairwise different names.
ServerTables ==
    UNION {{t \in [1..n -> ServerRecords] :
              \A i, j \in 1..n : i # j => t[i].name # t[j].name} : n \in 0..MaxServers}

ReservedTool == <<"AskUserQuestion">>

Range(f) == {f[i] : i \in DOMAIN f}

\* f"mcp__{server_name}__{tool['name']}"
Qualified(name, tool) == <<"mcp", "_", "_">> \o name \o <<"_", "_">> \o tool

\* The position of the leftmost "__" of a name, 0 when there is none.
FirstSep(q) ==
    LET at == {i \in 1..(Len(q) - 1) : q[i] = "_" /\ q[i + 1] = "_"}
    IN  IF at = {} THEN 0 ELSE CHOOSE i \in at : \A j \in at : i <= j

\* q.split("__", n)[-1]
RECURSIVE SplitLast(_, _)
SplitLast(q, n) ==
    IF n = 0 \/ FirstSep(q) = 0 THEN q
    ELSE SplitLast(SubSeq(q, FirstSep(q) + 2, Len(q)), n - 1)

\* `mode and mode not in server.get("modes", ...)`: the server is skipped.
ServerSkipped(server, mode) ==
    mode # "" /\ ~(server.modes = "all" \/ (server.modes = "chat_only" /\ mode = "chat"))

\* `mode not in None` raises TypeError.
ModesRaise(table, mode) ==
    \E i \in DOMAIN table : mode # "" /\ table[i].modes = "null"

\* The (server, tool) pairs of the servers the loop does not skip, in order.
RECURSIVE ServerTools(_, _)
ServerTools(table, mode) ==
    IF table = <<>> THEN <<>>
    ELSE LET srv == Head(table)
             own == IF ServerSkipped(srv, mode) THEN <<>>
                    ELSE [i \in 1..Len(srv.tools) |->
                            [name |-> srv.name, tool |-> srv.tools[i]]]
         IN  own \o ServerTools(Tail(table), mode)

\* all_mcp_tools, lines 333-334.
AllMcpTools(table, mode) ==
    LET pairs == ServerTools(table, mode)
    IN  [i \in 1..Len(pairs) |-> Qualified(pairs[i].name, pairs[i].tool)]

\* Mutant: the reserved tool is not added.
WithReserved_Skip(disabled) == disabled

\* disabled.append("AskUserQuestion")
WithReserved(disabled) == Append(disabled, ReservedTool)

\* Lines 336-346.
Disabled(enabled, all) ==
    WithReserved(IF all = <<>> THEN <<>>
                 ELSE IF enabled = <<>> THEN all
                 ELSE SelectSeq(all, LAMBDA q : SplitLast(q, 2) \notin Range(enabled)))

build_mcp_flags(enabled, mode, table) ==
    IF ModesRaise(table, mode) THEN Raised
    ELSE Returned([configs |-> SelectSeq(table, LAMBDA srv : ~ServerSkipped(srv, mode)),
                   disabled |-> Disabled(enabled, AllMcpTools(table, mode))])

BuildFlags ==
    /\ call.fn = "build_mcp_flags"
    /\ call' = [fn |-> "built", arg |-> call.arg,
                out |-> build_mcp_flags(call.arg.enabled, call.arg.mode, call.arg.table)]
    /\ UNCHANGED <<genvars, subs, termvars>>

InitFlags ==
    /\ InitServer
    /\ call \in {[fn |-> "build_mcp_flags", arg |-> x] :
                   x \in [enabled : EnabledLists, mode : FlagModes, table : ServerTables]}

NextFlags == BuildFlags

SpecFlags == InitFlags /\ [][NextFlags]_vars

(***************************************************************************)
(* calc_context_percent and the usage parse_cli_stream hands to it, as a    *)
(* function of the assistant lines read before the result line and of the  *)
(* result line's modelUsage.  Percentages are in tenths of a percent.       *)
(***************************************************************************)
MaxAssistants == 2  \* assistant lines before the result line
MaxCallers == 3     \* threads calling get_session_lock in SpecLocks

\* message.usage of an assistant line: absent (or an empty object), or the
\* three token counts.  The counts are chosen so that no quotient is a
\* decimal tie, where the result of Python's round depends on the binary
\* value of the float.
NoUsage == [present |-> FALSE, input |-> 0, cache_read |-> 0, cache_creation |-> 0]

UsageValues ==
    {NoUsage, [present |-> TRUE, input |-> 0, cache_read |-> 0, cache_creation |-> 0]}
    \cup [present : {TRUE}, input : {0, 100}, cache_read : {50, 250},
          cache_creation : {0, 200}]

\* modelUsage of the result line: absent (or empty), or its first entry: the
\* context window and the sum of the entry's four token counts.
NoModelUsage == [present |-> FALSE, contextWindow |-> 0, total |-> 0]

ModelUsageValues ==
    {NoModelUsage}
    \cup [present : {TRUE}, contextWindow : {200000, 1000000}, total : {0, 150, 450}]

AssistantLines == UNION {[1..n -> UsageValues] : n \in 0..MaxAssistants}

\* round(n / d * 100, 1), in tenths.
RoundTenths(n, d) == (2000 * n + d) \div (2 * d)

\* parse_cli_stream, lines 423-425: last_assistant_usage after the lines.
RECURSIVE LastAssistantUsage(_)
LastAssistantUsage(lines) ==
    IF lines = <<>> THEN NoUsage
    ELSE IF lines[Len(lines)].present THEN lines[Len(lines)]
    ELSE LastAssistantUsage(SubSeq(lines, 1, Len(lines) - 1))

\* Mutant: the cached tokens are left out.
TotalInput_NoCache(usage) == usage.input

\* Lines 368-370.
TotalInput(usage) == usage.input + usage.cache_read + usage.cache_creation

\* Lines 360-363: the first entry's contextWindow, 200000 without one.
ContextWindow(mu) == IF mu.present THEN mu.contextWindow ELSE 200000

calc_context_percent(last_usage, mu) ==
    IF last_usage.present THEN RoundTenths(TotalInput(last_usage), ContextWindow(mu))
    ELSE IF mu.present THEN RoundTenths(mu.total, ContextWindow(mu))
    ELSE 0

\* The result line is read: lines 449-456 and on_result.
ReadResult ==
    /\ call.fn = "result_line"
    /\ call' = [fn |-> "percent", arg |-> call.arg,
                out |-> calc_context_percent(LastAssistantUsage(call.arg.lines),
                                             call.arg.modelUsage)]
    /\ UNCHANGED <<genvars, subs, termvars>>

InitUsage ==
    /\ InitServer
    /\ call \in {[fn |-> "result_line", arg |-> x] :
                   x \in [lines : AssistantLines, modelUsage : ModelUsageValues]}

NextUsage == ReadResult

SpecUsage == InitUsage /\ [][NextUsage]_vars

(***************************************************************************)
(* get_session_lock, one action per step of a calling thread.  call.table  *)
(* is _session_locks with lock objects numbered in creation order (0: no   *)
(* entry), call.guard the thread inside _session_locks_guard (0: none).    *)
(***************************************************************************)
Callers == 1..MaxCallers
LockKeys == {"a", "code_a"}

\* Mutant: the guard admits a thread while another is inside.
GuardFree_Always(guard) == TRUE

\* with _session_locks_guard: the guard can be taken.
GuardFree(guard) == guard = 0

\* A thread calls get_session_lock(key) and waits for the guard.
CallLock(c, key) ==
    /\ call.fn = "get_session_lock"
    /\ call.callers[c].pc = "idle"
    /\ call' = [call EXCEPT !.callers[c] = [pc |-> "guard", key |-> key, lock |-> 0]]
    /\ UNCHANGED <<genvars, subs, termvars>>

\* Line 49: the guard is entered.
TakeGuard(c) ==
    /\ call.fn = "get_session_lock"
    /\ call.callers[c].pc = "guard"
    /\ GuardFree(call.guard)
    /\ call' = [call EXCEPT !.guard = c, !.callers[c].pc = "test"]
    /\ UNCHANGED <<genvars, subs, termvars>>

\* Line 50: if session_key not in _session_locks.
TestKey(c) ==
    /\ call.fn = "get_session_lock"
    /\ call.callers[c].pc = "test"
    /\ call' = [call EXCEPT !.callers[c].pc =
                   IF call.table[call.callers[c].key] = 0 THEN "create" ELSE "return"]
    /\ UNCHANGED <<genvars, subs, termvars>>

\* Line 51: _session_locks[session_key] = threading.Lock().
CreateLock(c) ==
    /\ call.fn = "get_session_lock"
    /\ call.callers[c].pc = "create"
    /\ call' = [call EXCEPT !.table[call.callers[c].key] = call.made + 1,
                            !.made = @ + 1,
                            !.callers[c].pc = "return"]
    /\ UNCHANGED <<genvars, subs, termvars>>

\* Line 52: the entry is read and returned, and the guard is left.
ReturnLock(c) ==
    /\ call.fn = "get_session_lock"
    /\ call.callers[c].pc = "return"
    /\ call' = [call EXCEPT !.guard = IF @ = c THEN 0 ELSE @,
                            !.callers[c].pc = "done",
                            !.callers[c].lock = call.table[call.callers[c].key]]
    /\ UNCHANGED <<genvars, subs, termvars>>

InitLocks ==
    /\ InitServer
    /\ call = [fn |-> "get_session_lock", guard |-> 0, made |-> 0,
               table |-> [k \in LockKeys |-> 0],
               callers |-> [c \in Callers |-> [pc |-> "idle", key |-> "", lock |-> 0]]]

NextLocks ==
    \/ \E c \in Callers, k \in LockKeys : CallLock(c, k)
    \/ \E c \in Callers : TakeGuard(c)
    \/ \E c \in Callers : TestKey(c)
    \/ \E c \in Callers : CreateLock(c)
    \/ \E c \in Callers : ReturnLock(c)

SpecLocks == InitLocks /\ [][NextLocks]_vars

(***************************************************************************)
(* parse_cli_stream's pairing of tool calls with tool results, and         *)
(* process_tool_result.  call.pending is pending_tools, call.events the    *)
(* tool_use and result events appended so far; the i-th tool_use item read *)
(* has id i.                                                               *)
(***************************************************************************)
\* The names of the tool calls the assistant lines carry.
ToolCallNames == {"Write", "Edit", "Bash"}

\* tool_info when pending_tools is empty: {} (id "" is written 0).
NoTool == [id |-> 0, name |-> ""]

\* The key sets of the objects a user line carries as tool_use_result.
ResultKeySets ==
    {{}, {"structuredPatch"}, {"structuredPatch", "file"}, {"file"},
     {"file", "stdout"}, {"stdout"}, {"stderr"}, {"content"}}

\* The values of data.get("tool_use_result"): no such key (None), a string
\* (empty or not), an object (file_object: the value under "file" is an
\* object), and a value that is neither (a list or a number, empty/zero or
\* not).
ToolResults ==
    {[kind |-> "absent", truthy |-> FALSE, keys |-> {}, file_object |-> FALSE]}
      \cup {[kind |-> "string", truthy |-> t, keys |-> {}, file_object |-> FALSE] :
              t \in BOOLEAN}
      \cup UNION {{[kind |-> "object", truthy |-> ks # {}, keys |-> ks,
                     file_object |-> fo] :
                      fo \in IF "file" \in ks THEN BOOLEAN ELSE {FALSE}} :
                    ks \in ResultKeySets}
      \cup {[kind |-> "other", truthy |-> t, keys |-> {}, file_object |-> FALSE] :
              t \in BOOLEAN}

NoEvent == [out |-> "none", type |-> "", toolId |-> 0]
ToolEvent(type, id) == [out |-> "event", type |-> type, toolId |-> id]
RaisedInTool == [out |-> "raised", type |-> "", toolId |-> 0]

\* call.last before a user line was read.
NoLine == [user |-> FALSE,
           result |-> [kind |-> "absent", truthy |-> FALSE, keys |-> {},
                       file_object |-> FALSE],
           called |-> FALSE, out |-> NoEvent]

\* process_tool_result, lines 510-537, in the order of its tests.
process_tool_result(tool_result, tool_info) ==
    LET tool_id == tool_info.id
    IN  CASE tool_result.kind = "string" -> ToolEvent("tool_output", tool_id)
          [] tool_result.kind # "object" -> NoEvent
          [] "structuredPatch" \in tool_result.keys ->
               IF tool_info.name = "Write" THEN ToolEvent("tool_output", tool_id)
               ELSE ToolEvent("edit_result", tool_id)
          [] "file" \in tool_result.keys ->
               IF tool_result.file_object THEN ToolEvent("read_result", tool_id)
               ELSE RaisedInTool
          [] tool_result.keys \cap {"stdout", "stderr"} # {} ->
               ToolEvent("bash_result", tool_id)
          [] OTHER -> ToolEvent("tool_output", tool_id)

\* Lines 432-439: an assistant line with one tool_use item.
ToolUseLine(name, limit) ==
    /\ call.fn = "parse_cli_stream"
    /\ ~call.raised
    /\ call.nlines < limit
    /\ LET tool_data == [id |-> call.ncalls + 1, name |-> name]
       IN  call' = [call EXCEPT !.nlines = @ + 1,
                                !.ncalls = @ + 1,
                                !.pending = Append(@, tool_data),
                                !.events = Append(@, ToolEvent("tool_use", tool_data.id)),
                                !.last = NoLine]
    /\ UNCHANGED <<genvars, subs, termvars>>

\* Lines 441-447: a user line; `if tool_result:` skips every falsy value.
UserLine(tool_result, limit) ==
    /\ call.fn = "parse_cli_stream"
    /\ ~call.raised
    /\ call.nlines < limit
    /\ LET tool_info == IF call.pending # <<>> THEN Head(call.pending) ELSE NoTool
           evt == IF tool_result.truthy
                    THEN process_tool_result(tool_result, tool_info) ELSE NoEvent
       IN  call' = [call EXCEPT
                      !.nlines = @ + 1,
                      !.pending = IF tool_result.truthy /\ @ # <<>> THEN Tail(@) ELSE @,
                      !.events = IF evt.out = "event" THEN Append(@, evt) ELSE @,
                      !.raised = evt.out = "raised",
                      !.last = [user |-> TRUE, result |-> tool_result,
                                called |-> tool_result.truthy, out |-> evt]]
    /\ UNCHANGED <<genvars, subs, termvars>>

InitTools ==
    /\ InitServer
    /\ call = [fn |-> "parse_cli_stream", nlines |-> 0, ncalls |-> 0,
               pending |-> <<>>, events |-> <<>>, raised |-> FALSE, last |-> NoLine]

NextTools ==
    \/ \E n \in ToolCallNames : ToolUseLine(n, MaxToolLines)
    \/ \E v \in ToolResults : UserLine(v, MaxToolLines)

SpecTools == InitTools /\ [][NextTools]_vars

(***************************************************************************)
(* The discovery exchange step by step, for both transports.  call.sent is *)
(* the sequence of messages that reached the server, call.posts the        *)
(* post_async threads that have not run yet, call.scanned the number of    *)
(* stream lines examined in the current phase of the push-stream           *)
(* transport, call.got the ids of the lines taken as responses.            *)
(***************************************************************************)
Transports == {"sse", "stdio"}

\* _read_sse_response's timeout_lines.
timeout_lines == 200

\* The lines read while a response is awaited: a JSON object with an id (3
\* stands for every id that is neither 1 nor 2), text that is not JSON, JSON
\* that is not an object.
ExchangeLines ==
    {[kind |-> "response", id |-> i] : i \in {1, 2, 3}}
      \cup {[kind |-> "junk", id |-> 0], [kind |-> "nonobject", id |-> 0]}

\* The request with id 1 is initialize, the one with id 2 is tools/list.
RequestOf(id) == IF id = 1 THEN "initialize" ELSE "tools/list"

\* The server answers the requests it received: a line with id 1 or 2 comes
\* only after the request with that id reached it.
Answerable(line) ==
    line.kind = "response" /\ line.id \in {1, 2}
      => \E i \in DOMAIN call.sent : call.sent[i] = RequestOf(line.id)

\* Mutant: every JSON object is taken as the awaited response.
Matches_AnyId(line, target_id) == line.kind = "response"

\* data.get("id") == target_id
Matches(line, target_id) == line.kind = "response" /\ line.id = target_id

\* return [] after sse_resp.close() or process.terminate().
GaveUp(c) ==
    [c EXCEPT !.pc = "returned",
              !.stream = IF c.transport = "sse" THEN "closed" ELSE @,
              !.child = IF c.transport = "stdio" THEN "terminated" ELSE @]

\* except Exception: return [] -- nothing is closed or terminated there.
RaisedOut(c) == [c EXCEPT !.pc = "returned"]

\* requests.get(url, stream=True) or subprocess.Popen, returning or raising.
OpenTransport ==
    /\ call.fn = "exchange"
    /\ call.pc = "open"
    /\ \E ok \in BOOLEAN :
         call' = IF ~ok THEN RaisedOut(call)
                 ELSE IF call.transport = "sse"
                   THEN [call EXCEPT !.pc = "endpoint", !.stream = "open"]
                   ELSE [call EXCEPT !.pc = "initialize", !.child = "alive"]
    /\ UNCHANGED <<genvars, subs, termvars>>

\* Lines 79-86: one line of the wait for the endpoint announcement; the
\* loop has no counter.
ScanEndpoint(found, limit) ==
    /\ call.fn = "exchange"
    /\ call.pc = "endpoint"
    /\ call.scanned < limit
    /\ call' = IF found THEN [call EXCEPT !.pc = "initialize", !.scanned = 0]
               ELSE [call EXCEPT !.scanned = @ + 1]
    /\ UNCHANGED <<genvars, subs, termvars>>

\* Lines 88-90: the stream ended before the announcement.
NoEndpoint ==
    /\ call.fn = "exchange"
    /\ call.pc = "endpoint"
    /\ call' = GaveUp(call)
    /\ UNCHANGED <<genvars, subs, termvars>>

\* initialize and tools/list: post_async starts a thread (push-stream), or
\* send_jsonrpc writes to the child's stdin, which may raise.
SendRequest ==
    /\ call.fn = "exchange"
    /\ call.pc \in {"initialize", "tools/list"}
    /\ \E ok \in BOOLEAN :
         call' = IF call.transport = "sse"
                   THEN [call EXCEPT !.posts = @ \cup {call.pc}, !.pc = "await",
                                     !.target = IF call.pc = "initialize" THEN 1 ELSE 2,
                                     !.scanned = 0]
                 ELSE IF ok
                   THEN [call EXCEPT !.sent = Append(@, call.pc), !.pc = "await",
                                     !.target = IF call.pc = "initialize" THEN 1 ELSE 2]
                 ELSE RaisedOut(call)
    /\ UNCHANGED <<genvars, subs, termvars>>

\* The thread of post_async runs: requests.post delivers the request, or
\* raises inside the thread.
PostThread(msg) ==
    /\ call.fn = "exchange"
    /\ msg \in call.posts
    /\ \E ok \in BOOLEAN :
         call' = [call EXCEPT !.posts = @ \ {msg},
                              !.sent = IF ok THEN Append(@, msg) ELSE @]
    /\ UNCHANGED <<genvars, subs, termvars>>

\* The exchange after the response with id target was taken.
Taken(c, line) ==
    IF c.target = 1 THEN [c EXCEPT !.got = Append(@, line.id), !.pc = "notify"]
    ELSE GaveUp([c EXCEPT !.got = Append(@, line.id)])

\* _read_sse_response, lines 39-52, and read_jsonrpc, lines 170-184: one
\* line.  enumerate counts from 0 and the loop breaks when i > timeout_lines.
ReadReplyLine(line) ==
    /\ call.fn = "exchange"
    /\ call.pc = "await"
    /\ Answerable(line)
    /\ call' = IF call.transport = "sse" /\ call.scanned > timeout_lines
                 THEN GaveUp(call)
               ELSE LET c == [call EXCEPT !.scanned =
                                 IF call.transport = "sse" THEN @ + 1 ELSE @]
                    IN  CASE line.kind = "nonobject" -> RaisedOut(c)
                          [] Matches(line, call.target) -> Taken(c, line)
                          [] OTHER -> c
    /\ UNCHANGED <<genvars, subs, termvars>>

\* The stream ended, the child closed its stdout, or read_jsonrpc's deadline
\* passed: the awaited response is None.
NoReplyLine ==
    /\ call.fn = "exchange"
    /\ call.pc = "await"
    /\ call' = GaveUp(call)
    /\ UNCHANGED <<genvars, subs, termvars>>

\* The initialized notification: requests.post or send_jsonrpc, which may
\* raise.
SendNotification ==
    /\ call.fn = "exchange"
    /\ call.pc = "notify"
    /\ \E ok \in BOOLEAN :
         call' = IF ok THEN [call EXCEPT !.sent = Append(@, "initialized"),
                                         !.pc = "tools/list"]
                 ELSE RaisedOut(call)
    /\ UNCHANGED <<genvars, subs, termvars>>

InitExchange ==
    /\ InitServer
    /\ call \in {[fn |-> "exchange", transport |-> t, pc |-> "open", posts |-> {},
                  sent |-> <<>>, scanned |-> 0, target |-> 0, got |-> <<>>,
                  stream |-> "none", child |-> "none"] : t \in Transports}

NextExchange ==
    \/ OpenTransport
    \/ \E found \in BOOLEAN : ScanEndpoint(found, MaxEndpointScan)
    \/ NoEndpoint
    \/ SendRequest
    \/ \E msg \in {"initialize", "tools/list"} : PostThread(msg)
    \/ \E line \in ExchangeLines : ReadReplyLine(line)
    \/ NoReplyLine
    \/ SendNotification

SpecExchange == InitExchange /\ [][NextExchange]_vars

(***************************************************************************)
(* Responses of the three modes side by side, with stop requests for each  *)
(* mode.                                                                   *)
(***************************************************************************)
NextStop ==
    \/ \E n \in Names : chat_handler(n, MaxResp)
    \/ \E m \in Modes, n \in Names : mode_chat_handler(m, n, MaxResp)
    \/ GenSteps(MaxLines, ExitCodes)
    \/ \E m \in Modes : stop_stream(m)

SpecStop == Init /\ [][NextStop]_vars

(***************************************************************************)
(* Claims about the orchestration (checked under Spec).                    *)
(***************************************************************************)
SameKey(r, q) == r # q /\ lock_key(r) = lock_key(q)

\* A thread that has the lock and has not yet left run_mode_generation.
InCritical(r) == task[r].pc \notin {"none", "start", "busy", "done"}

\* C1: two responses with the same lock key are never both running; a
\* response is running only while every other request of its key is either
\* still waiting for the lock or has finished; and a step of one generation
\* thread leaves the status, event log and final text of every other
\* response unchanged.
C1_MutualExclusion ==
    /\ [](\A r \in Created, q \in Created :
            SameKey(r, q) /\ resp[r].status = "running"
              => /\ resp[q].status # "running"
                 /\ HoldsLock(r)
                 /\ ~InCritical(q))
    /\ [][\A r \in Created, q \in Created :
            r # q /\ task'[r] # task[r]
              => /\ resp'[q].status = resp[q].status
                 /\ resp'[q].events = resp[q].events
                 /\ resp'[q].final_result = resp[q].final_result]_vars

\* C1 witness: a second request of the session runs after the first one
\* finished with a non-empty log.
C1_Witness ==
    \E r \in Created, q \in Created :
        /\ SameKey(r, q)
        /\ task[r].pc = "done" /\ resp[r].status = "completed" /\ resp[r].events # <<>>
        /\ resp[q].status = "running"

\* C2: a generation thread that has ended, by returning or by an exception,
\* does not hold its session lock.
C2_LockReleased ==
    \A r \in Created : task[r].pc \in {"done", "crashed"} => ~HoldsLock(r)

\* C3: a response that ended with the session-busy reason has status error,
\* an empty event log, no subprocess and no stream entry, and its thread has
\* returned.
C3_LockTimeout ==
    \A r \in Created :
        resp[r].error = BusyReason
          => /\ resp[r].status = "error"
             /\ resp[r].events = <<>>
             /\ proc[r] = "none"
             /\ r \notin title_procs
             /\ ~streams[r].present
             /\ task[r].pc = "done"
             /\ ~HoldsLock(r)

\* C3 witness: one request timed out while another of its session was running.
C3_Witness ==
    \E r \in Created, q \in Created :
        SameKey(r, q) /\ resp[r].error = BusyReason /\ resp[q].status = "running"

\* C4: a response whose cancelled flag was set when its lock was granted gets
\* no subprocess spawned on its behalf and no event, and its thread returns
\* with status completed.
C4_CancelledBeforeGrant ==
    \A r \in granted_cancelled :
        /\ proc[r] = "none"
        /\ r \notin title_procs
        /\ resp[r].events = <<>>
        /\ task[r].pc = "done" => resp[r].status = "completed"

StatusMoves ==
    {<<"pending", "running">>, <<"pending", "completed">>, <<"pending", "error">>,
     <<"running", "completed">>, <<"running", "error">>}

\* C5: every change of a response's status is a forward move of
\* pending -> running -> {completed, error}; a terminal status never changes.
C5_StatusMonotonic ==
    [][\A r \in Created :
          resp'[r].status # resp[r].status
            => <<resp[r].status, resp'[r].status>> \in StatusMoves]_vars

\* C5 witness: a response that went through running ended in error while
\* another ended completed.
C5_Witness ==
    \E r \in Created, q \in Created :
        /\ resp[r].status = "error" /\ resp[r].error = "parse"
        /\ resp[q].status = "completed" /\ task[q].pc = "done"


\* C14: no response is in status error because of a line of subprocess
\* output: a line that is not a well-formed event object is skipped.
C14_MalformedSkipped ==
    \A r \in Created : ~(resp[r].status = "error" /\ task[r].why = "parse")

(***************************************************************************)
(* Claims about the event log and its subscriptions (under SpecStream).    *)
(***************************************************************************)
IsPrefix(a, b) == Len(a) <= Len(b) /\ SubSeq(b, 1, Len(a)) = a

\* The log events a subscription has yielded (signals carry idx -1).
LogOut(sub) == SelectSeq(sub.out, LAMBDA e : e.idx >= 0)

\* C6: in every step the event log of every response has its old log as a
\* prefix, while the response is in the registry.
C6_AppendOnly ==
    [][\A r \in responses :
          r \in responses' => IsPrefix(resp[r].events, resp'[r].events)]_vars

\* C6 witness: a log of two different events.
C6_Witness ==
    \E r \in responses :
        Len(resp[r].events) = 2 /\ resp[r].events[1] # resp[r].events[2]

\* C7: a result event is the last event of its log, and the response that
\* holds one does not end in error.
C7_ResultLast ==
    \A r \in Created :
        \A i \in 1..Len(resp[r].events) :
            resp[r].events[i].type = "result"
              => i = Len(resp[r].events) /\ resp[r].status # "error"

\* C8: the log events a subscription has yielded are those of the log from
\* its start cursor on, one per index, in index order, each with _idx equal
\* to its log index; its cursor is just past the last one.
C8_InOrder ==
    \A sub \in SubIds :
        LET lo == LogOut(sub)
            first == IF sub.start > 0 THEN sub.start ELSE 0
        IN  sub.pc # "notfound"
              => /\ sub.cursor = first + Len(lo)
                 /\ \A i \in 1..Len(lo) :
                      /\ lo[i].idx = first + i - 1
                      /\ lo[i].idx < Len(resp[sub.rid].events)
                      /\ lo[i].event = resp[sub.rid].events[lo[i].idx + 1].type
                      /\ lo[i].data = resp[sub.rid].events[lo[i].idx + 1].data

\* C8 witness: two subscriptions attached at once with different cursors,
\* while the generation is still running: one was sent events 0 and 1, the
\* other event 1.
C8_Witness ==
    \E s \in SubIds, t \in SubIds :
        /\ s.start = 0 /\ Len(LogOut(s)) = 2
        /\ t.start = 1 /\ Len(LogOut(t)) = 1
        /\ resp[s.rid].status = "running"

\* C9: of two subscriptions of one response that ran to the end marker of a
\* terminal status, one started at 0 and one at k, the second yielded exactly
\* the events of the first with index >= k, in the same order.
C9_Replay ==
    \A s \in SubIds, t \in SubIds :
        /\ s.rid = t.rid
        /\ s.pc = "done" /\ t.pc = "done"
        /\ s.start = 0
        => LogOut(t) = SelectSeq(LogOut(s), LAMBDA e : e.idx >= t.start)

\* C9 witness: both ended; the one from 0 yielded two events, the one from 1
\* yielded one.
C9_Witness ==
    \E s \in SubIds, t \in SubIds :
        /\ s.pc = "done" /\ t.pc = "done"
        /\ s.start = 0 /\ t.start = 1
        /\ Len(LogOut(s)) = 2 /\ Len(LogOut(t)) = 1

\* A subscription that yielded the end marker on its polling turn and stopped.
Stopped(sub) == [sub EXCEPT !.pc = "stopped", !.out = Append(@, DoneSignal)]

\* C10: a polling turn of a subscription whose response has its cancelled
\* flag set yields the end marker and nothing else, and the subscription
\* stops.
C10_CancelledStops ==
    [][\A s \in SubIds :
          /\ s.pc = "poll"
          /\ CopiesIn(s, subs') < CopiesIn(s, subs)
          /\ resp[s.rid].cancelled
          => CopiesIn(Stopped(s), subs') > CopiesIn(Stopped(s), subs)]_vars

\* The signals (end marker, error signal) among what a subscription yielded.
Signals(sub) == SelectSeq(sub.out, LAMBDA e : e.idx < 0)

\* C13: a response whose agent subprocess exited with a non-zero status ends
\* in status error with a reason, not in completed (checked under SpecStream,
\* whose subprocess exits with either status).
C13_CrashIsError ==
    \A r \in Created :
        proc[r] = "failed" /\ task[r].pc = "done"
          => resp[r].status = "error" /\ resp[r].error # ""

\* C11: a subscription that ran to the end of a response in status error
\* yielded, after the log events, the error signal carrying the response's
\* reason and then one done; one that ran to the end of a completed response
\* yielded one done and no error signal; done is the last thing yielded.
C11_TerminalSignals ==
    \A sub \in SubIds :
        sub.pc = "done"
          => /\ sub.out[Len(sub.out)] = DoneSignal
             /\ Signals(sub) =
                  IF resp[sub.rid].status = "error"
                    THEN <<ErrorSignal(resp[sub.rid].error), DoneSignal>>
                    ELSE <<DoneSignal>>

(***************************************************************************)
(* Claims about the registry over time (checked under SpecReap).           *)
(***************************************************************************)
\* C12: a subscription opened on an id that is not in the registry (never
\* created, or reaped) yields the error signal and then the end marker and
\* nothing else, ever; one opened on a registered id is not refused; and
\* opening a subscription changes neither the registry, the response objects
\* nor the stream table.
C12_NotFound ==
    /\ [](\A sub \in SubIds :
            sub.pc = "notfound"
              => sub.out = <<ErrorSignal(NotFoundReason), DoneSignal>>)
    /\ [][BagCardinality(subs') > BagCardinality(subs)
            => /\ \E sub \in BagToSet(subs') :
                    /\ CopiesIn(sub, subs') > CopiesIn(sub, subs)
                    /\ sub.pc = "notfound" <=> sub.rid \notin responses
               /\ UNCHANGED <<responses, resp, streams>>]_vars

\* C12 witness: a subscription was refused on the id of a response that had
\* a non-empty log and was reaped.
C12_Witness ==
    \E sub \in SubIds :
        /\ sub.pc = "notfound"
        /\ sub.rid \in Created \ responses
        /\ resp[sub.rid].events # <<>>

(***************************************************************************)
(* Claims about the terminal bridge (checked under SpecCap, SpecTerminal). *)
(***************************************************************************)
\* The sessions that are registered and not idle: the ones the capacity
\* check of a connection attempt counts, the reaper having run first.
LiveSessions == {s \in DOMAIN terminal_sessions : ~terminal_sessions[s].idle}

\* A step in which connection c makes its attempt.
Attempts(c) == conn[c].pc = "none" /\ conn'[c].pc # "none"

\* C15: a connection attempt that finds MAX_TERMINALS sessions registered at
\* its capacity check is rejected with close code 1008; a rejected connection
\* has no session record and no forked shell, and stays rejected.
C15_CapRejects ==
    /\ [](\A c \in Conns :
            conn[c].pc = "rejected"
              => /\ conn[c].close_code = 1008
                 /\ c \notin DOMAIN terminal_sessions
                 /\ pty[c] = NoPty)
    /\ [][\A c \in Conns :
            /\ Attempts(c) /\ Cardinality(LiveSessions) >= MAX_TERMINALS
                 => conn'[c].pc = "rejected"
            /\ conn[c].pc = "rejected" => conn'[c] = conn[c]]_vars

\* C15 witness: a connection was rejected while three sessions are registered.
C15_Witness ==
    \E c \in Conns :
        conn[c].pc = "rejected" /\ Cardinality(DOMAIN terminal_sessions) = MAX_TERMINALS

\* C16: a session's child is signalled and then its descriptor closed, once;
\* the descriptor is open exactly while the record is in the table; and a
\* _close_session call on an id that is not in the table sends no signal,
\* closes nothing and does not bring the id back.
C16_CloseIdempotent ==
    /\ [](\A c \in Conns :
            /\ pty[c].ops \in {<<>>, <<"kill", "close">>}
            /\ pty[c].fd = "open" <=> c \in DOMAIN terminal_sessions
            /\ pty[c].fd = "closed" <=> pty[c].ops = <<"kill", "close">>)
    /\ [][\A c \in Conns :
            pty'[c].attempts > pty[c].attempts
              => /\ c \notin DOMAIN terminal_sessions'
                 /\ IF c \in DOMAIN terminal_sessions
                      THEN pty'[c].ops = <<"kill", "close">>
                      ELSE /\ pty'[c].ops = pty[c].ops
                           /\ pty'[c].fd = pty[c].fd
                           /\ pty'[c].child = pty[c].child]_vars

\* C16 witness: _close_session ran twice on one id (the reaper, then the
\* handler's cleanup) and the child was signalled once.
C16_Witness ==
    \E c \in Conns :
        /\ pty[c].attempts = 2
        /\ pty[c].ops = <<"kill", "close">>
        /\ conn[c].pc = "closed"

\* C17: a connection attempt closes every idle session (child signalled,
\* descriptor closed, record removed) before its capacity check, leaves the
\* other sessions alone, and is let through when fewer than MAX_TERMINALS
\* sessions are not idle.
C17_IdleReaped ==
    [][\A c \in Conns :
          Attempts(c)
            => /\ \A s \in DOMAIN terminal_sessions :
                    IF terminal_sessions[s].idle
                      THEN /\ s \notin DOMAIN terminal_sessions'
                           /\ pty'[s].ops = <<"kill", "close">>
                           /\ pty'[s].fd = "closed"
                      ELSE /\ s \in DOMAIN terminal_sessions'
                           /\ pty'[s] = pty[s]
               /\ Cardinality(LiveSessions) < MAX_TERMINALS
                    => conn'[c].pc = "accepting"]_vars

\* C17 witness: the fourth connection got its session while two others are
\* registered and a third, reaped as idle, still has its handler waiting.
C17_Witness ==
    /\ Cardinality(DOMAIN terminal_sessions) = MAX_TERMINALS
    /\ 4 \in DOMAIN terminal_sessions
    /\ \E s \in Conns : conn[s].pc = "active" /\ pty[s].fd = "closed"

\* C18: once the read task of an active connection has ended on the end of
\* file of a shell that exited, the connection gets closed: the child
\* signalled, the descriptor closed, the session record removed.
C18_ReadEndCloses ==
    \A c \in Conns :
        (conn[c].pc = "active" /\ conn[c].reader = "ended" /\ pty[c].child = "exited")
          ~> (/\ conn[c].pc = "closed"
              /\ c \notin DOMAIN terminal_sessions
              /\ pty[c].ops = <<"kill", "close">>)

\* A step in which the handler of connection c takes one frame from the peer
\* while its session is registered and its descriptor open.
Receives(c) ==
    /\ conn[c].pc = "active"
    /\ pty[c].fd = "open"
    /\ conn'[c].nframes = conn[c].nframes + 1

\* C19: of the frames received in the active state, the resize message is
\* not written to the pty input, every other frame is appended to it
\* unchanged with the connection staying active, and the session's
\* last_activity is fresh after every frame.
C19_FramesForwarded ==
    [][\A c \in Conns :
          Receives(c)
            => /\ IF conn'[c].last = "resize"
                    THEN pty'[c].input = pty[c].input
                    ELSE /\ pty'[c].input = Append(pty[c].input, conn'[c].last)
                         /\ conn'[c].pc = "active"
               /\ c \in DOMAIN terminal_sessions' => ~terminal_sessions'[c].idle]_vars

\* C20: after a resize message, applied or failed, the connection is still
\* active and its session record still registered.
C20_ResizeFailureIgnored ==
    [][\A c \in Conns :
          Receives(c) /\ conn'[c].last = "resize"
            => /\ conn'[c].pc = "active"
               /\ c \in DOMAIN terminal_sessions'
               /\ ~conn'[c].error_frame]_vars

\* C26: at most MAX_TERMINALS terminal sessions are registered, in every
\* reachable state (checked under SpecCap).
C26_CapNeverExceeded == Cardinality(DOMAIN terminal_sessions) <= MAX_TERMINALS

(***************************************************************************)
(* Claims about the registry's retention (checked under SpecRetain).       *)
(***************************************************************************)
\* C21: a response leaves the registry only when its status is completed or
\* error and it is older than the retention window; a pending or running
\* response stays, whatever its age, and so does a young one.
C21_ReapedOnlyTerminalOld ==
    [][\A r \in responses :
          r \notin responses' => resp[r].status \in TerminalStatuses /\ resp[r].old]_vars

\* C21 witness: one response was reaped by the request that created another,
\* which has grown old while it is still pending or running.
C21_Witness ==
    \E r \in Created \ responses, q \in responses :
        /\ resp[r].status \in TerminalStatuses /\ resp[r].old
        /\ resp[q].status \in ActiveStatuses /\ resp[q].old

(***************************************************************************)
(* Claims about tool discovery (checked under SpecDiscover).               *)
(***************************************************************************)
\* A non-object JSON line is read before the awaited reply.
NonObjectFirst(lines) ==
    \E i \in DOMAIN lines :
        lines[i] = "nonobject" /\ \A j \in 1..(i - 1) : lines[j] # "match"

NoReply(lines) == \A i \in DOMAIN lines : lines[i] # "match"

\* The failures of an exchange: the connection or the child cannot be opened,
\* the endpoint is missing, a write fails, a reply does not come, a
\* non-object line is met, the tools/list reply carries no usable result.
Failed(x) ==
    \/ x.open = "raises" \/ x.args # "list" \/ x.endpoint = "none" \/ x.send = "raises"
    \/ NoReply(x.init) \/ NoReply(x.tools)
    \/ NonObjectFirst(x.init) \/ NonObjectFirst(x.tools)
    \/ x.payload \in {"error", "null_result"}

\* C22: discovery returns to its caller without raising, and returns the
\* empty list whenever the exchange failed.
C22_DiscoveryNeverRaises ==
    call.fn = "discovered"
      => /\ ~call.out.raised
         /\ Failed(call.arg) => call.out.value = <<>>

\* C22 witness: discovery returned the empty list although data.get raised
\* on a non-object line of an exchange whose connection was open.
C22_Witness ==
    /\ call.fn = "discovered"
    /\ call.arg.open = "ok" /\ call.arg.send = "ok" /\ call.arg.args = "list"
    /\ call.arg.endpoint = "found"
    /\ NonObjectFirst(call.arg.init)
    /\ call.out = Returned(<<>>)

(***************************************************************************)
(* Claims about build_mcp_flags (checked under SpecFlags).                 *)
(***************************************************************************)
\* The deny-list of the rule: the qualified names of the discovered tools
\* of the servers enabled for the mode whose tool name is not in the enabled
\* list, followed by the reserved tool.
ExpectedDenied(enabled, mode, table) ==
    LET pairs == SelectSeq(ServerTools(table, mode),
                           LAMBDA p : p.tool \notin Range(enabled))
    IN  Append([i \in 1..Len(pairs) |-> Qualified(pairs[i].name, pairs[i].tool)],
               ReservedTool)

\* C23: the deny-list build_mcp_flags computes is the deny-list of the rule,
\* for every server name the server-name rule admits.
C23_DenyList ==
    call.fn = "built" /\ ~call.out.raised
      => call.out.value.disabled =
           ExpectedDenied(call.arg.enabled, call.arg.mode, call.arg.table)

\* C24: the reserved tool is in the deny-list of every flag string
\* build_mcp_flags returns, as its last entry.
C24_ReservedDenied ==
    call.fn = "built" /\ ~call.out.raised
      => LET d == call.out.value.disabled
         IN  d # <<>> /\ d[Len(d)] = ReservedTool

\* C24 witness: flags were built with an empty enabled list and no tool
\* known, and the deny-list is the reserved tool alone.
C24_Witness ==
    /\ call.fn = "built" /\ ~call.out.raised
    /\ call.arg.enabled = <<>>
    /\ AllMcpTools(call.arg.table, call.arg.mode) = <<>>
    /\ call.out.value.disabled = <<ReservedTool>>

(***************************************************************************)
(* Claims about the usage percentage (checked under SpecUsage).            *)
(***************************************************************************)
\* The percentage of the rule for a chosen usage: its three counts over the
\* window, else the model-usage total over the window, else 0.
PercentOf(usage, mu) ==
    IF usage.present
      THEN RoundTenths(usage.input + usage.cache_read + usage.cache_creation,
                       IF mu.present THEN mu.contextWindow ELSE 200000)
    ELSE IF mu.present THEN RoundTenths(mu.total, mu.contextWindow)
    ELSE 0

\* C25 as stated: the usage is the one of the last assistant line before the
\* result line when that line carried usage; otherwise the total, otherwise 0.
C25_LastMessageUsage ==
    call.fn = "percent"
      => LET lines == call.arg.lines
             last == IF lines = <<>> THEN NoUsage ELSE lines[Len(lines)]
         IN  call.out = PercentOf(last, call.arg.modelUsage)

\* C25 amended: the usage is the one of the last assistant line that carried
\* usage among the lines before the result line, when there is one.
C25_LastCarriedUsage ==
    call.fn = "percent"
      => LET lines == call.arg.lines
             with == {i \in DOMAIN lines : lines[i].present}
             last == IF with = {} THEN NoUsage
                     ELSE lines[CHOOSE i \in with : \A j \in with : j <= i]
         IN  call.out = PercentOf(last, call.arg.modelUsage)

\* C25 witness: input 100, cache-read 50, cache-creation 0 and a window of
\* 200000 give 0.1.
C25_Witness ==
    /\ call.fn = "percent"
    /\ call.arg.lines = <<[present |-> TRUE, input |-> 100, cache_read |-> 50,
                           cache_creation |-> 0]>>
    /\ call.arg.modelUsage.present /\ call.arg.modelUsage.contextWindow = 200000
    /\ call.out = 1

(***************************************************************************)
(* Claims about cancellation and failure of a generation.                  *)
(***************************************************************************)
\* A response whose cancelled flag is set while its thread holds the lock.
CancelRequested(r) == r \in Created /\ resp[r].cancelled /\ HoldsLock(r)

\* The thread of r returned: terminal status, lock released, and a subprocess
\* that was launched for it is not left running.
CancelSettled(r) ==
    /\ r \in Created
    /\ task[r].pc = "done"
    /\ resp[r].status \in TerminalStatuses
    /\ ~HoldsLock(r)
    /\ proc[r] # "alive"

\* C27: a response cancelled while its generation thread holds the session
\* lock leads to a state where its subprocess, if one was launched, was
\* terminated, its status is terminal and the lock is released (checked
\* under SpecFair).
C27_CancelTerminates == \A r \in Ids : CancelRequested(r) ~> CancelSettled(r)

\* What a subscription from index 0 yields when it misses nothing: every
\* event of the log with its index, then the end marker.
WholeLog(events) ==
    [i \in 1..Len(events) |-> SseEvent(events[i], i - 1)] \o <<DoneSignal>>

\* C28: a subscription started at index 0 that yielded the end marker of a
\* response that is completed and not cancelled has yielded every event of
\* the response's log, in order, before the end marker (checked under
\* SpecStream).
C28_NoEventMissed ==
    \A s \in SubIds :
        /\ s.start = 0
        /\ s.pc = "done"
        /\ resp[s.rid].status = "completed"
        /\ ~resp[s.rid].cancelled
        => s.out = WholeLog(resp[s.rid].events)

\* C28 witness: a subscription from index 0 ran to the end marker of a
\* completed response that was not cancelled, whose log holds two events.
C28_Witness ==
    \E s \in SubIds :
        /\ s.start = 0 /\ s.pc = "done"
        /\ resp[s.rid].status = "completed" /\ ~resp[s.rid].cancelled
        /\ Len(resp[s.rid].events) = 2
        /\ s.out = WholeLog(resp[s.rid].events)

\* The step is the one the thread of r takes after its subprocess loop ended,
\* and it appends an assistant message to the store of r's session.
AppendsMessage(r) ==
    /\ task[r].pc = "save"
    /\ db_messages'[lock_key(r)].assistant # db_messages[lock_key(r)].assistant

\* C29: a cancelled flag stays set, and the step a thread takes after its
\* subprocess loop ended appends no message for a response whose flag is
\* set; a message is appended by such a step only, for a response that is
\* not cancelled and has final text or collected events (checked under
\* SpecStream).
C29_NoWriteWhenCancelled ==
    [][/\ \A r \in Created :
            /\ resp[r].cancelled => resp'[r].cancelled
            /\ AppendsMessage(r)
                 => /\ ~resp[r].cancelled
                    /\ task[r].full # "" \/ CollectedEvents(r) # <<>>
       /\ (\E k \in SessionIds : db_messages'[k].assistant # db_messages[k].assistant)
            => \E r \in Created : AppendsMessage(r)]_vars

\* C29 witness: a response cancelled while its subprocess was producing
\* output ended completed with a text event in its log and no message in
\* the store.
C29_Witness ==
    \E r \in Created :
        /\ task[r].pc = "done"
        /\ resp[r].cancelled
        /\ resp[r].status = "completed"
        /\ proc[r] = "terminated"
        /\ \E i \in DOMAIN resp[r].events : resp[r].events[i] = TextEvent
        /\ db_messages[lock_key(r)].assistant = 0

\* The steps of the try block that raised for r: the launch, the parse or
\* the append-message write.
Raising == {"launch", "parse", "db"}

\* C30: a response whose launch, parse or write raised has status error
\* from the raise on, and once its thread has left the except block its
\* reason is the message of the exception (checked under SpecRetain).
C30_FailureIsError ==
    \A r \in Created :
        task[r].why \in Raising
          => /\ resp[r].status = "error"
             /\ task[r].pc \in {"finally", "done"} => resp[r].error = task[r].why

(***************************************************************************)
(* Claims about termination of a generation and its frozen log.            *)
(***************************************************************************)
\* C31: every response that was created reaches a terminal status, when the
\* threads are scheduled and the subprocesses exit (checked under SpecLive).
C31_EventuallyTerminal ==
    \A r \in Ids : (r \in Created) ~> (r \in Created /\ resp[r].status \in TerminalStatuses)

\* C32: no step changes the event log of a response whose status is
\* completed or error (checked under SpecStream).
C32_TerminalLogFrozen ==
    [][\A r \in Created :
          resp[r].status \in TerminalStatuses => resp'[r].events = resp[r].events]_vars

\* C32 witness: a response ended in error on its second line, with the
\* first line's event in its log, while its subprocess is still running.
C32_Witness ==
    \E r \in Created :
        /\ resp[r].status = "error"
        /\ task[r].pc = "done"
        /\ Len(resp[r].events) = 1
        /\ proc[r] = "alive"

(***************************************************************************)
(* Claims about the lock table (checked under SpecLocks).                  *)
(***************************************************************************)
\* C33: the callers that were returned a lock for one key were returned the
\* same lock, the table holds as many locks as were created, and no step
\* replaces or removes an entry of the table.
C33_OneLockPerKey ==
    [][/\ \A c \in Callers, d \in Callers :
            /\ call'.callers[c].pc = "done" /\ call'.callers[d].pc = "done"
            /\ call'.callers[c].key = call'.callers[d].key
            => call'.callers[c].lock = call'.callers[d].lock
       /\ call'.made = Cardinality({k \in LockKeys : call'.table[k] # 0})
       /\ \A k \in LockKeys : call.table[k] # 0 => call'.table[k] = call.table[k]]_vars

\* C33 witness: three threads called with one key; all three were returned
\* the one lock that was created for it.
C33_Witness ==
    /\ call.fn = "get_session_lock"
    /\ \A c \in Callers : /\ call.callers[c].pc = "done"
                          /\ call.callers[c].key = "a"
                          /\ call.callers[c].lock = 1
    /\ call.made = 1

(***************************************************************************)
(* Claims about descriptor numbers (checked under SpecReuse).              *)
(***************************************************************************)
\* C34: a handler's relay loops act on the handler's own session only: a
\* step in which handler c receives a frame changes no other session's
\* pseudo-terminal, and the read task of c never polls a number that is now
\* the open descriptor of another session.
C34_OwnShellOnly ==
    [][\A c \in Conns : \A d \in Conns \ {c} :
          /\ conn'[c].nframes # conn[c].nframes
               => /\ pty'[d].input = pty[d].input
                  /\ pty'[d].resized = pty[d].resized
          /\ conn'[c].reader = "running" => d \notin DescriptorOf(pty'[c].num)]_vars

(***************************************************************************)
(* Claims about tool results (checked under SpecTools).                    *)
(***************************************************************************)
\* The event process_tool_result gives when the result is classified by its
\* shape alone, in the priority order patch, file, stdout/stderr.
ByShape(result, id) ==
    CASE result.kind = "string" -> ToolEvent("tool_output", id)
      [] result.kind # "object" -> NoEvent
      [] "structuredPatch" \in result.keys -> ToolEvent("edit_result", id)
      [] "file" \in result.keys -> ToolEvent("read_result", id)
      [] result.keys \cap {"stdout", "stderr"} # {} -> ToolEvent("bash_result", id)
      [] OTHER -> ToolEvent("tool_output", id)

\* C35: a step that reads a user line carrying a tool_use_result pops the
\* oldest queued tool call; it appends at most one event, exactly one when
\* the result is a string or an object, and the event's toolId is the id of
\* the popped call.
C35_FifoPairing ==
    [][call'.nlines # call.nlines /\ call'.last.user /\ call'.last.result.kind # "absent"
         => LET popped == IF call.pending # <<>> THEN Head(call.pending) ELSE NoTool
                added == SubSeq(call'.events, Len(call.events) + 1, Len(call'.events))
            IN  /\ call'.pending = IF call.pending # <<>> THEN Tail(call.pending) ELSE <<>>
                /\ Len(added) <= 1
                /\ call'.last.result.kind \in {"string", "object"} => Len(added) = 1
                /\ \A i \in DOMAIN added : added[i].toolId = popped.id]_vars

\* C36: every result handed to process_tool_result is classified by its shape
\* in the priority order patch, file, stdout/stderr, whatever the tool call.
C36_ClassifiedByShape ==
    call.fn = "parse_cli_stream" /\ call.last.called
      => call.last.out = ByShape(call.last.result, call.last.out.toolId)

(***************************************************************************)
(* Claims about the discovery exchange (checked under SpecExchange).       *)
(***************************************************************************)
MessageRank(msg) ==
    CASE msg = "initialize" -> 1 [] msg = "initialized" -> 2 [] OTHER -> 3

Issued(msg) ==
    msg \in call.posts \/ \E i \in DOMAIN call.sent : call.sent[i] = msg

\* C37: in both transports the messages reach the server in the order
\* initialize, initialized notification, tools/list; tools/list is issued
\* only after a line with id 1 was taken as the initialize response and the
\* notification was sent; the only lines ever taken as responses are one
\* with id 1 and then one with id 2, every line with another id being
\* passed over.
C37_HandshakeOrder ==
    /\ \A i, j \in DOMAIN call.sent :
         i < j => MessageRank(call.sent[i]) < MessageRank(call.sent[j])
    /\ Issued("tools/list") \/ call.pc = "tools/list"
         => /\ Len(call.got) >= 1
            /\ call.got[1] = 1
            /\ Issued("initialized")
    /\ call.got \in {<<>>, <<1>>, <<1, 2>>}
    /\ call.pc = "await" => Len(call.got) = call.target - 1

\* C37 witness: a push-stream exchange that delivered the three messages,
\* took the responses with ids 1 and 2, and examined more than one line
\* while waiting for the second, so at least one line was passed over.
C37_Witness ==
    /\ call.transport = "sse"
    /\ call.sent = <<"initialize", "initialized", "tools/list">>
    /\ call.got = <<1, 2>>
    /\ call.scanned > 1
    /\ call.pc = "returned"

\* C38: push-stream discovery examines at most 200 stream lines in every
\* phase of the exchange: in the wait for the endpoint announcement and for
\* each awaited response.
C38_BoundedScan ==
    call.transport = "sse" => call.scanned <= timeout_lines

\* C39: whenever spawned-process discovery has returned after spawning the
\* child, it has terminated that child.
C39_ChildTerminated ==
    call.transport = "stdio" /\ call.pc = "returned" /\ call.child # "none"
      => call.child = "terminated"

(***************************************************************************)
(* Claims about stop requests (checked under SpecStop).                    *)
(***************************************************************************)
\* What a stop request for mode m does to response r.
StopEffect(m, r) ==
    IF resp[r].mode # m
      THEN /\ resp'[r] = resp[r]
           /\ streams'[r] = streams[r]
           /\ proc'[r] = proc[r]
    ELSE IF r \in responses /\ resp[r].status \in ActiveStatuses
      THEN /\ resp'[r] = [resp[r] EXCEPT !.cancelled = TRUE]
           /\ streams[r].present => streams'[r].cancelled
           /\ streams[r].process => proc'[r] # "alive"
    ELSE /\ resp'[r].cancelled = resp[r].cancelled
         /\ resp'[r].status = resp[r].status

\* C40: a stop request for one mode flags the in-flight responses of that
\* mode and terminates their registered processes; it leaves the stream
\* entry, the response entry and the process of every response of the other
\* two modes unchanged, and a response of the stopped mode that is already
\* completed or error keeps its cancelled flag and its status.
C40_StopOneMode ==
    [][\A m \in Modes : stop_stream(m) => \A r \in Created : StopEffect(m, r)]_vars

\* C40 witness: two responses of different modes are both running with their
\* processes registered, one is flagged and its process terminated, the
\* other is neither, so a stop request for the first mode has acted.
C40_Witness ==
    \E r, s \in Created :
       /\ resp[r].mode # resp[s].mode
       /\ resp[r].status = "running" /\ resp[s].status = "running"
       /\ streams[r].process /\ streams[s].process
       /\ resp[r].cancelled /\ streams[r].cancelled /\ proc[r] = "terminated"
       /\ ~resp[s].cancelled /\ ~streams[s].cancelled /\ proc[s] = "alive"

====
